---- MODULE Spec2Model ----
(***************************************************************************)
(* PKFX_Tools: the noise generator GUI (makesomenoise) and the sprite      *)
(* generator GUI (fxspritemaker).                                          *)
(*                                                                         *)
(* The module models                                                       *)
(*   - the parameter animator of the sprite GUI (calculate_animated_value, *)
(*     apply_curve),                                                       *)
(*   - the layer blender of the noise GUI (blend_noise, worker and GUI     *)
(*     copy),                                                              *)
(*   - the noise composer (NoiseGenerator.generate and its generators over *)
(*     a raw field returned by the noise primitive),                       *)
(*   - the preview worker protocol of the noise GUI (update_preview,       *)
(*     NoiseWorker.run, the queued finished signal, on_preview_finished),  *)
(*   - the batch exports (export_atlas, export_sequence,                   *)
(*     export_animated_atlas) against a file system,                       *)
(*   - two threads calling SpriteGenerator.generate over numpy's global    *)
(*     random state.                                                       *)
(*                                                                         *)
(* Python floats are modelled as binary floating-point numbers with a      *)
(* mantissa of Prec bits, round-to-nearest-even after every operation and  *)
(* an unbounded exponent: a number is <<m, e>> standing for m * 2^e, with  *)
(* m odd, or <<0, 0>> for zero.                                            *)
(***************************************************************************)
EXTENDS Integers, Sequences, FiniteSets, TLC

-----------------------------------------------------------------------------
(* Bounds of the model                                                     *)

\* mantissa bits of the modelled floating point (binary64 has 53, the
\* float32 arrays of the noise generators 24)
Prec == 5

-----------------------------------------------------------------------------
(* Floating-point arithmetic                                               *)

RECURSIVE Pow2(_)
Pow2(k) == IF k <= 0 THEN 1 ELSE 2 * Pow2(k - 1)

IAbs(i) == IF i < 0 THEN 0 - i ELSE i

Sgn(i) == IF i < 0 THEN 0 - 1 ELSE IF i = 0 THEN 0 ELSE 1

IMin(a, b) == IF a <= b THEN a ELSE b

IMax(a, b) == IF a >= b THEN a ELSE b

\* number of bits of a positive integer
RECURSIVE BitLen(_)
BitLen(n) == IF n <= 0 THEN 0 ELSE 1 + BitLen(n \div 2)

\* the canonical form of m * 2^e
RECURSIVE Canon(_, _)
Canon(m, e) ==
    IF m = 0 THEN <<0, 0>>
    ELSE IF m % 2 = 0 THEN Canon(m \div 2, e + 1)
    ELSE <<m, e>>

\* (n / d) * 2^e for n, d > 0, rounded to Prec bits, ties to even
RECURSIVE RoundPos(_, _, _)
RoundPos(n, d, e) ==
    IF n >= d * Pow2(Prec) THEN RoundPos(n, 2 * d, e + 1)
    ELSE IF n < d * Pow2(Prec - 1) THEN RoundPos(2 * n, d, e - 1)
    ELSE LET q  == n \div d
             r  == n % d
             up == (2 * r > d) \/ (2 * r = d /\ q % 2 = 1)
         IN  Canon(IF up THEN q + 1 ELSE q, e)

FNeg(x) == <<0 - x[1], x[2]>>

\* (n / d) * 2^e for d > 0, rounded
RoundRat(n, d, e) ==
    IF n = 0 THEN <<0, 0>>
    ELSE IF n > 0 THEN RoundPos(n, d, e)
    ELSE FNeg(RoundPos(0 - n, d, e))

\* a float literal n/d, an int converted to float
FRat(n, d) == RoundRat(n, d, 0)

FInt(i) == RoundRat(i, 1, 0)

Zero == <<0, 0>>

One == <<1, 0>>

Two == <<1, 1>>

Half == <<1, 0 - 1>>

\* position of the leading bit of a non-zero float
Msb(x) == x[2] + BitLen(IAbs(x[1]))

\* the sign of x - y, computed exactly: -1, 0 or 1
FCmp(x, y) ==
    IF x[1] = 0 THEN 0 - Sgn(y[1])
    ELSE IF y[1] = 0 THEN Sgn(x[1])
    ELSE IF Sgn(x[1]) # Sgn(y[1]) THEN Sgn(x[1])
    ELSE IF Msb(x) # Msb(y)
         THEN (IF Msb(x) > Msb(y) THEN Sgn(x[1]) ELSE 0 - Sgn(x[1]))
    ELSE LET lo == IMin(x[2], y[2])
         IN  Sgn(x[1] * Pow2(x[2] - lo) - y[1] * Pow2(y[2] - lo))

FLt(x, y) == FCmp(x, y) < 0

FLe(x, y) == FCmp(x, y) <= 0

FAdd(x, y) ==
    IF x[1] = 0 THEN y
    ELSE IF y[1] = 0 THEN x
    ELSE IF Msb(x) > Msb(y) + Prec + 2 THEN x
    ELSE IF Msb(y) > Msb(x) + Prec + 2 THEN y
    ELSE LET lo == IMin(x[2], y[2])
         IN  RoundRat(x[1] * Pow2(x[2] - lo) + y[1] * Pow2(y[2] - lo), 1, lo)

FSub(x, y) == FAdd(x, FNeg(y))

FMul(x, y) == RoundRat(x[1] * y[1], 1, x[2] + y[2])

\* x / y for y # 0
FDiv(x, y) ==
    IF x[1] = 0 THEN Zero
    ELSE IF Sgn(x[1]) = Sgn(y[1])
         THEN RoundPos(IAbs(x[1]), IAbs(y[1]), x[2] - y[2])
         ELSE FNeg(RoundPos(IAbs(x[1]), IAbs(y[1]), x[2] - y[2]))

FMinimum(x, y) == IF FLt(y, x) THEN y ELSE x

FMaximum(x, y) == IF FLt(x, y) THEN y ELSE x

FAbs(x) == <<IAbs(x[1]), x[2]>>

-----------------------------------------------------------------------------
(* State                                                                   *)

VARIABLES
    \* sprite GUI, parameter animator
    key,            \* the parameter whose slider add_slider created
    sprite_param,   \* sprite_params[current_sprite_type][key]
    anim_enabled,   \* anim_enabled[key]
    anim_start,     \* anim_start[key]
    anim_end,       \* anim_end[key]
    anim_style,     \* anim_style[key]
    anim_curve,     \* anim_curve[key]
    rng,            \* state of Python's global random generator
    ret             \* the call of calculate_animated_value that just returned

VARIABLES
    \* noise GUI, layer blender
    noise_a,        \* the field generated for layer A
    noise_b,        \* the field generated for layer B
    mix_weight,     \* self.mix_weight
    blend_mode,     \* self.blend_mode
    blendOut        \* the blend that was just computed, and by whom

VARIABLES
    \* noise GUI, noise composer
    noise_type,     \* the noise type of the layer
    shape,          \* <<height, width>> of the field
    raw,            \* raw[y][x]: what the noise primitive returns at a pixel
    rawHi,          \* what it returns at the higher octaves of Ridged
    octaves,        \* params['octaves']
    power,          \* params['power']
    invert,         \* params['invert']
    seamless_tiling,        \* self.seamless_tiling
    seamless_blend_width,   \* self.seamless_blend_width
    field           \* the field generate just returned

VARIABLES
    \* noise GUI, preview worker
    gui_copy,       \* which copy of noise_generator_gui.py runs
    worker,         \* self.worker: the number of the NoiseWorker, 0 for None
    workers,        \* the NoiseWorker threads created so far
    posted,         \* finished signals queued in the main thread's event loop
    preview,        \* the worker whose result preview_label shows, 0 for none
    update_timer,   \* the debounce timer is running
    override_cursors,   \* the wait cursors on QApplication's cursor stack
    status_label    \* status_label.text()

VARIABLES
    \* batch exports of both GUIs
    disk,           \* the files and folders on disk
    last_export     \* the export handler that just returned

VARIABLES
    \* sprite GUI, SpriteGenerator.generate on two threads
    np_random,      \* numpy's global RandomState
    gen             \* gen[t]: the call of SpriteGenerator.generate on thread t

VARIABLES
    \* sprite GUI, atlas layout; both GUIs, atlas packing
    app,                \* the program that runs: fxspritemaker or makesomenoise
    frame_count,        \* self.frame_count
    atlas_mode,         \* atlas_mode_combo.currentText()
    atlas_cols,         \* self.atlas_cols
    atlas_rows,         \* self.atlas_rows
    atlas_cols_spin,    \* atlas_cols_spin.value()
    atlas_rows_spin,    \* atlas_rows_spin.value()
    atlas,              \* the atlas an export or a preview just packed
    sequence            \* the frame file names export_sequence just wrote

VARIABLES
    \* noise GUI, seamless tiler
    blend_width_slider, \* blend_width_slider.value(), in percent
    tile_in,            \* the field a generator hands to make_seamless_blend
    tile_out            \* the call of make_seamless_blend that just returned

VARIABLES
    \* both GUIs, versioned file names of the single-image exports
    png_files,      \* the paths at which os.path.exists is true
    output_path,    \* output_path.text() of the noise GUI
    named           \* the export that just returned, and the path it saved to

VARIABLES
    \* sprite generator, colour and alpha of one pixel: px is the pixel's intensity and the colour parameters, rgba the channels written
    px,
    rgba

VARIABLES
    \* sprite generator, soft edge: edge_px is a pixel's distance past the edge of a shape and the softness, edge_out the intensity computed for it
    edge_px,
    edge_out

VARIABLES
    \* noise generator, Domain Warp: warp_px is a pixel, the parameters and the two warp samples, warp_out the sample points computed for it
    warp_px,
    warp_out

VARIABLES
    \* sprite GUI, preview thread: params_rev counts the parameter changes, current_sprite is the revision the preview shows, ready_signals the queued finished signals, retry_timer the number of pending single-shot timers
    params_rev,
    generation_thread,
    pending_update,
    ready_signals,
    current_sprite,
    retry_timer

VARIABLES
    \* noise GUI, animation playback: atlas_frames is the number of stored frames, build the handler that is rebuilding them, frame_access the last indexing of atlas_frames
    atlas_frames,
    current_frame,
    animation_timer,
    build,
    frame_access

VARIABLES
    \* noise GUI, parameter bags: self.params_a, self.params_b, self.noise_type_b, and the frame loop that just returned
    params_a,
    params_b,
    noise_type_b,
    loop_call

animVars == <<key, sprite_param, anim_enabled, anim_start, anim_end,
              anim_style, anim_curve, rng, ret>>

blendVars == <<noise_a, noise_b, mix_weight, blend_mode, blendOut>>

noiseVars == <<noise_type, shape, raw, rawHi, octaves, power, invert,
               seamless_tiling, seamless_blend_width, field>>

previewVars == <<gui_copy, worker, workers, posted, preview, update_timer,
                 override_cursors, status_label>>

exportVars == <<disk, last_export>>

raceVars == <<np_random, gen>>

tilerVars == <<blend_width_slider, tile_in, tile_out>>

nameVars == <<png_files, output_path, named>>

atlasVars == <<app, frame_count, atlas_mode, atlas_cols, atlas_rows,
               atlas_cols_spin, atlas_rows_spin, atlas, sequence>>

colorVars == <<px, rgba>>

edgeVars == <<edge_px, edge_out>>

warpVars == <<warp_px, warp_out>>

spritePreviewVars == <<params_rev, generation_thread, pending_update, ready_signals, current_sprite, retry_timer>>

playbackVars == <<atlas_frames, current_frame, animation_timer, build, frame_access>>

bagsVars == <<params_a, params_b, noise_type_b, loop_call>>

vars == <<animVars, blendVars, noiseVars, previewVars, exportVars, raceVars,
          atlasVars, tilerVars, nameVars,
      colorVars,
      edgeVars,
      warpVars,
      spritePreviewVars,
      playbackVars,
      bagsVars>>

\* what the handlers of one part leave alone
notAnim ==
    <<blendVars, noiseVars, previewVars, exportVars, raceVars, atlasVars,
      tilerVars, nameVars,
      colorVars,
      edgeVars,
      warpVars,
      spritePreviewVars,
      playbackVars,
      bagsVars>>

notBlend ==
    <<animVars, noiseVars, previewVars, exportVars, raceVars, atlasVars,
      tilerVars, nameVars,
      colorVars,
      edgeVars,
      warpVars,
      spritePreviewVars,
      playbackVars,
      bagsVars>>

notNoise ==
    <<animVars, blendVars, previewVars, exportVars, raceVars, atlasVars,
      tilerVars, nameVars,
      colorVars,
      edgeVars,
      warpVars,
      spritePreviewVars,
      playbackVars,
      bagsVars>>

notPreview ==
    <<animVars, blendVars, noiseVars, exportVars, raceVars, atlasVars,
      tilerVars, nameVars,
      colorVars,
      edgeVars,
      warpVars,
      spritePreviewVars,
      playbackVars,
      bagsVars>>

notExport ==
    <<animVars, blendVars, noiseVars, previewVars, raceVars, atlasVars,
      tilerVars, nameVars,
      colorVars,
      edgeVars,
      warpVars,
      spritePreviewVars,
      playbackVars,
      bagsVars>>

notAtlas ==
    <<animVars, blendVars, noiseVars, previewVars, exportVars, raceVars,
      tilerVars, nameVars,
      colorVars,
      edgeVars,
      warpVars,
      spritePreviewVars,
      playbackVars,
      bagsVars>>

notTiler ==
    <<animVars, blendVars, previewVars, exportVars, raceVars, atlasVars,
      nameVars,
      colorVars,
      edgeVars,
      warpVars,
      spritePreviewVars,
      playbackVars,
      bagsVars>>

notName ==
    <<animVars, blendVars, noiseVars, previewVars, exportVars, raceVars,
      atlasVars, tilerVars,
      colorVars,
      edgeVars,
      warpVars,
      spritePreviewVars,
      playbackVars,
      bagsVars>>

notColor ==
    <<animVars, blendVars, noiseVars, previewVars, exportVars, raceVars,
      tilerVars, nameVars, atlasVars,
      edgeVars,
      warpVars,
      spritePreviewVars,
      playbackVars,
      bagsVars>>

notEdge ==
    <<animVars, blendVars, noiseVars, previewVars, exportVars, raceVars,
      tilerVars, nameVars, atlasVars, colorVars,
      warpVars,
      spritePreviewVars,
      playbackVars,
      bagsVars>>

notWarp ==
    <<animVars, blendVars, noiseVars, previewVars, exportVars, raceVars,
      tilerVars, nameVars, atlasVars, colorVars, edgeVars,
      spritePreviewVars,
      playbackVars,
      bagsVars>>

notSpritePreview ==
    <<animVars, blendVars, noiseVars, previewVars, exportVars, raceVars,
      tilerVars, nameVars, atlasVars, colorVars, edgeVars, warpVars,
      playbackVars,
      bagsVars>>

notPlayback ==
    <<animVars, blendVars, noiseVars, previewVars, exportVars, raceVars,
      tilerVars, nameVars, atlasVars, colorVars, edgeVars, warpVars,
      spritePreviewVars,
      bagsVars>>

notBags ==
    <<animVars, blendVars, noiseVars, previewVars, exportVars, raceVars,
      tilerVars, nameVars, atlasVars, colorVars, edgeVars, warpVars,
      spritePreviewVars, playbackVars>>

notRace ==
    <<animVars, blendVars, noiseVars, previewVars, exportVars, atlasVars,
      tilerVars, nameVars,
      colorVars,
      edgeVars,
      warpVars,
      spritePreviewVars,
      playbackVars,
      bagsVars>>

-----------------------------------------------------------------------------
(* Sprite GUI: the parameter animator                                      *)

\* largest value of a slider and of its start/end spin boxes (min is 0)
MaxSpin == 4

\* largest frame count of an export
MaxFrames == 4

\* number of states of the modelled random generator
RngMod == 3

\* the animated sliders and the scale of each (param_definitions)
Keys == {"radius", "falloff", "sides"}

SliderScale(k) ==
    IF k = "radius" THEN FRat(1, 100)
    ELSE IF k = "falloff" THEN FRat(1, 10)
    ELSE One

Styles == {"Linear", "Ping Pong", "Random"}

Curves == {"Linear", "Ease In", "Ease Out", "Ease In/Out", "Stepped"}

NoCall == [frame |-> 0 - 1]

\* random.seed(a): the generator's state after seeding with a
RngSeed(a) == (2 * a + 1) % RngMod

\* random.random(): the next state, and the number in [0, 1) drawn from it
RngNext(s) == (s + 1) % RngMod

RngDraw(s) == FRat(RngNext(s), RngMod)

\* apply_curve with the Stepped threshold taken as t <= 0.5
apply_curve_SteppedLe(t, curve_type) ==
    IF curve_type = "Linear" THEN t
    ELSE IF curve_type = "Ease In" THEN FMul(t, t)
    ELSE IF curve_type = "Ease Out"
         THEN FSub(One, FMul(FSub(One, t), FSub(One, t)))
    ELSE IF curve_type = "Ease In/Out"
         THEN IF FLt(t, Half)
              THEN FMul(FMul(Two, t), t)
              ELSE LET b == FAdd(FMul(FNeg(Two), t), Two)
                   IN  FSub(One, FDiv(FMul(b, b), Two))
    ELSE IF curve_type = "Stepped"
         THEN IF FLe(t, Half) THEN Zero ELSE One
    ELSE t

apply_curve(t, curve_type) ==
    IF curve_type = "Linear" THEN t
    ELSE IF curve_type = "Ease In" THEN FMul(t, t)
    ELSE IF curve_type = "Ease Out"
         THEN FSub(One, FMul(FSub(One, t), FSub(One, t)))
    ELSE IF curve_type = "Ease In/Out"
         THEN IF FLt(t, Half)
              THEN FMul(FMul(Two, t), t)
              ELSE LET b == FAdd(FMul(FNeg(Two), t), Two)
                   IN  FSub(One, FDiv(FMul(b, b), Two))
    ELSE IF curve_type = "Stepped"
         THEN IF FLt(t, Half) THEN Zero ELSE One
    ELSE t

\* progress = frame / (total_frames - 1), 0.0 for a single frame
Progress(frame, total_frames) ==
    IF total_frames <= 1 THEN Zero
    ELSE FDiv(FInt(frame), FInt(total_frames - 1))

\* the animation style applied to the progress (Linear leaves it alone)
ApplyStyle(progress, style) ==
    IF style = "Ping Pong"
    THEN IF FLe(progress, Half)
         THEN FMul(progress, Two)
         ELSE FSub(Two, FMul(progress, Two))
    ELSE progress

\* style Random drawing from the generator as it is, without seeding it
RandomValue_NoSeed(s, frame, start, end) ==
    [value |-> FAdd(start, FMul(RngDraw(s), FSub(end, start))),
     rng   |-> RngNext(s)]

\* style Random: seed the global generator with the frame, draw once
RandomValue(s, frame, start, end) ==
    [value |-> FAdd(start, FMul(RngDraw(RngSeed(frame)), FSub(end, start))),
     rng   |-> RngNext(RngSeed(frame))]

\* the value returned for one parameter and the generator's state afterwards
calculate_animated_value(enabled, param, start, end, style, curve, frame, total_frames, s) ==
    IF ~enabled THEN [value |-> param, rng |-> s]
    ELSE IF style = "Random" THEN RandomValue(s, frame, start, end)
    ELSE LET progress == apply_curve(
                 ApplyStyle(Progress(frame, total_frames), style), curve)
         IN  [value |-> FAdd(start, FMul(FSub(end, start), progress)),
              rng   |-> s]

\* add_slider: the slider of parameter k with its animation settings
AnimInit ==
    /\ key \in Keys
    /\ sprite_param = FMul(FInt(MaxSpin), SliderScale(key))
    /\ anim_enabled = FALSE
    /\ anim_start = FMul(FInt(0), SliderScale(key))
    /\ anim_end = FMul(FInt(MaxSpin), SliderScale(key))
    /\ anim_style = "Linear"
    /\ anim_curve = "Linear"
    /\ rng \in 0 .. RngMod - 1
    /\ ret = NoCall

\* the sprite GUI is not running
AnimIdle ==
    /\ key = "radius"
    /\ sprite_param = Zero
    /\ anim_enabled = FALSE
    /\ anim_start = Zero
    /\ anim_end = Zero
    /\ anim_style = "Linear"
    /\ anim_curve = "Linear"
    /\ rng = 0
    /\ ret = NoCall

on_anim_enabled_changed ==
    /\ ret = NoCall
    /\ \E enabled \in BOOLEAN : anim_enabled' = enabled
    /\ UNCHANGED <<key, sprite_param, anim_start, anim_end, anim_style,
                   anim_curve, rng, ret>>
    /\ UNCHANGED notAnim

on_anim_start_changed ==
    /\ ret = NoCall
    /\ \E v \in 0 .. MaxSpin : anim_start' = FMul(FInt(v), SliderScale(key))
    /\ UNCHANGED <<key, sprite_param, anim_enabled, anim_end, anim_style,
                   anim_curve, rng, ret>>
    /\ UNCHANGED notAnim

on_anim_end_changed ==
    /\ ret = NoCall
    /\ \E v \in 0 .. MaxSpin : anim_end' = FMul(FInt(v), SliderScale(key))
    /\ UNCHANGED <<key, sprite_param, anim_enabled, anim_start, anim_style,
                   anim_curve, rng, ret>>
    /\ UNCHANGED notAnim

on_anim_style_changed ==
    /\ ret = NoCall
    /\ \E style \in Styles : anim_style' = style
    /\ UNCHANGED <<key, sprite_param, anim_enabled, anim_start, anim_end,
                   anim_curve, rng, ret>>
    /\ UNCHANGED notAnim

on_anim_curve_changed ==
    /\ ret = NoCall
    /\ \E curve \in Curves : anim_curve' = curve
    /\ UNCHANGED <<key, sprite_param, anim_enabled, anim_start, anim_end,
                   anim_style, rng, ret>>
    /\ UNCHANGED notAnim

\* get_animated_params(frame, total_frames) asks for the value of the key
CalculateAnimatedValue ==
    /\ ret = NoCall
    /\ \E total_frames \in 1 .. MaxFrames : \E frame \in 0 .. total_frames - 1 :
          LET r == calculate_animated_value(anim_enabled, sprite_param,
                       anim_start, anim_end, anim_style, anim_curve, frame,
                       total_frames, rng)
          IN  /\ ret' = [frame |-> frame, total |-> total_frames,
                         value |-> r.value]
              /\ rng' = r.rng
    /\ UNCHANGED <<key, sprite_param, anim_enabled, anim_start, anim_end,
                   anim_style, anim_curve>>
    /\ UNCHANGED notAnim

\* get_animated_params stores the value in the frame's parameters
StoreAnimatedValue ==
    /\ ret # NoCall
    /\ ret' = NoCall
    /\ UNCHANGED <<key, sprite_param, anim_enabled, anim_start, anim_end,
                   anim_style, anim_curve, rng>>
    /\ UNCHANGED notAnim

AnimNext ==
    \/ on_anim_enabled_changed
    \/ on_anim_start_changed
    \/ on_anim_end_changed
    \/ on_anim_style_changed
    \/ on_anim_curve_changed
    \/ CalculateAnimatedValue
    \/ StoreAnimatedValue


-----------------------------------------------------------------------------
(* Parameter animator: properties                                          *)

\* the call that just returned was made for an enabled parameter
AnimatedCall == ret # NoCall /\ anim_enabled

LastFrame == ret.total > 1 /\ ret.frame = ret.total - 1

\* C7: with style Linear and curve Linear the value is start at frame 0
\* (also when there is a single frame) and end at frame N-1 for N > 1.
C7_AnimatorBoundary ==
    (AnimatedCall /\ anim_style = "Linear" /\ anim_curve = "Linear") =>
        /\ (ret.frame = 0 => ret.value = anim_start)
        /\ (LastFrame => ret.value = anim_end)

\* the triangular wave of the spec: 2p for p <= 0.5, 2 - 2p otherwise
SpecFold(p) ==
    IF FLe(p, Half) THEN FMul(Two, p) ELSE FSub(Two, FMul(Two, p))

\* the curve table of the spec
SpecCurve(t, curve) ==
    CASE curve = "Linear" -> t
      [] curve = "Ease In" -> FMul(t, t)
      [] curve = "Ease Out" -> FSub(One, FMul(FSub(One, t), FSub(One, t)))
      [] curve = "Ease In/Out" ->
            IF FLt(t, Half)
            THEN FMul(Two, FMul(t, t))
            ELSE FSub(One, FDiv(FMul(FAdd(FNeg(FMul(Two, t)), Two),
                                     FAdd(FNeg(FMul(Two, t)), Two)), Two))
      [] curve = "Stepped" -> IF FLt(t, Half) THEN Zero ELSE One

SpecStyle(p, style) == IF style = "Ping Pong" THEN SpecFold(p) ELSE p

\* C8: with style Ping Pong and any curve the value is start at frame 0 and
\* at frame N-1, it is end at a frame whose progress is 0.5, and the progress
\* handed to the curve is the triangular wave of the frame's progress.
C8_PingPong ==
    (AnimatedCall /\ anim_style = "Ping Pong") =>
        /\ ((ret.total > 1 /\ ret.frame = 0) => ret.value = anim_start)
        /\ (LastFrame => ret.value = anim_start)
        /\ (Progress(ret.frame, ret.total) = Half => ret.value = anim_end)
        /\ ret.value = FAdd(anim_start, FMul(FSub(anim_end, anim_start),
                 apply_curve(SpecFold(Progress(ret.frame, ret.total)),
                             anim_curve)))

\* the number random.random() returns right after random.seed(frame)
FirstDrawAfterSeed(frame) == RngDraw(RngSeed(frame))

\* C9: with style Random the value is a function of start, end and the
\* frame index alone: whatever the curve, the frame count, the calls made
\* before and the state of the global generator, it is
\* start + r(frame) * (end - start), r(frame) being the first draw of a
\* generator seeded with the frame index.
C9_RandomDependsOnFrameOnly ==
    (AnimatedCall /\ anim_style = "Random") =>
        ret.value = FAdd(anim_start, FMul(FirstDrawAfterSeed(ret.frame),
                                          FSub(anim_end, anim_start)))

\* a Random call under a non-linear curve, on a generator that an earlier
\* call or the start-up left in another state than the frame's seed
C9_Witness ==
    /\ AnimatedCall /\ anim_style = "Random"
    /\ anim_curve = "Stepped"
    /\ ret.frame = 1 /\ ret.total = MaxFrames
    /\ ret.value # anim_start
    /\ anim_start # anim_end

\* C10: for the styles other than Random the value is
\* start + (end - start) * curve(style(progress)), with the curve and the
\* style of the spec's tables (Stepped is 0 below 0.5 and 1 from 0.5 on,
\* Ease In/Out changes formula at 0.5).
C10_ValueFormula ==
    (AnimatedCall /\ anim_style # "Random") =>
        ret.value = FAdd(anim_start, FMul(FSub(anim_end, anim_start),
            SpecCurve(SpecStyle(Progress(ret.frame, ret.total), anim_style),
                      anim_curve)))

\* a Stepped call exactly at t = 0.5, where the curve must already give 1
C10_Witness ==
    /\ AnimatedCall /\ anim_style = "Linear" /\ anim_curve = "Stepped"
    /\ Progress(ret.frame, ret.total) = Half
    /\ ret.value # anim_start

\* C29: for an enabled parameter, whatever the style, the curve, the frame
\* count and the frame, the value returned lies between the smaller and
\* the larger of start and end, both included.
C29_ValueWithinStartEnd ==
    AnimatedCall =>
        /\ FLe(FMinimum(anim_start, anim_end), ret.value)
        /\ FLe(ret.value, FMaximum(anim_start, anim_end))

-----------------------------------------------------------------------------
(* Noise GUI: the layer blender                                            *)

\* number of pixels of the blended fields
FieldLen == 2

\* pixel values of the two layers
PixelValues == {Zero, FRat(1, 4), Half, One}

\* positions of the weight slider (0..100)
WeightStops == {0, 20, 50, 100}

BlendModes == {"Mix", "Add", "Multiply", "Screen", "Overlay", "Min", "Max"}

NoBlend == [by |-> "none"]

\* a clip that only raises negative values to 0
Clip01_NoUpper(x) == IF FLt(x, Zero) THEN Zero ELSE x

\* np.clip(x, 0, 1)
Clip01(x) == IF FLt(x, Zero) THEN Zero ELSE IF FLt(One, x) THEN One ELSE x

\* the Overlay result array with the second formula on every pixel
OverlayPixel_NoMask(a, b) ==
    FSub(One, FMul(FMul(Two, FSub(One, a)), FSub(One, b)))

\* one pixel of the Overlay result array: mask = noise_a < 0.5
OverlayPixel(a, b) ==
    IF FLt(a, Half)
    THEN FMul(FMul(Two, a), b)
    ELSE FSub(One, FMul(FMul(Two, FSub(One, a)), FSub(One, b)))

\* Mix with the two layers exchanged
MixPixel_Swapped(a, b, weight) ==
    FAdd(FMul(b, FSub(One, weight)), FMul(a, weight))

\* noise_a * (1 - weight) + noise_b * weight
MixPixel(a, b, weight) ==
    FAdd(FMul(a, FSub(One, weight)), FMul(b, weight))

\* NoiseWorker.blend_noise, one pixel
BlendPixel(a, b, weight, mode) ==
    IF mode = "Mix" THEN MixPixel(a, b, weight)
    ELSE IF mode = "Add" THEN Clip01(FAdd(a, FMul(b, weight)))
    ELSE IF mode = "Multiply"
         THEN FMul(a, FAdd(FMul(b, weight), FSub(One, weight)))
    ELSE IF mode = "Screen"
         THEN FSub(One, FMul(FSub(One, a), FSub(One, FMul(b, weight))))
    ELSE IF mode = "Overlay"
         THEN FAdd(FMul(a, FSub(One, weight)),
                   FMul(OverlayPixel(a, b), weight))
    ELSE IF mode = "Min"
         THEN FMinimum(a, FAdd(FMul(b, weight), FMul(a, FSub(One, weight))))
    ELSE IF mode = "Max"
         THEN FMaximum(a, FAdd(FMul(b, weight), FMul(a, FSub(One, weight))))
    ELSE a

\* NoiseWorker.blend_noise
NoiseWorker_blend_noise(na, nb, weight, mode) ==
    [i \in DOMAIN na |-> BlendPixel(na[i], nb[i], weight, mode)]

\* NoiseGeneratorGUI.blend_noise, the copy used by the exports
NoiseGeneratorGUI_blend_noise(na, nb, weight, mode) ==
    [i \in DOMAIN na |->
        IF mode = "Mix"
        THEN FAdd(FMul(na[i], FSub(One, weight)), FMul(nb[i], weight))
        ELSE IF mode = "Add" THEN Clip01(FAdd(na[i], FMul(nb[i], weight)))
        ELSE IF mode = "Multiply"
             THEN FMul(na[i], FAdd(FMul(nb[i], weight), FSub(One, weight)))
        ELSE IF mode = "Screen"
             THEN FSub(One, FMul(FSub(One, na[i]),
                                 FSub(One, FMul(nb[i], weight))))
        ELSE IF mode = "Overlay"
             THEN FAdd(FMul(na[i], FSub(One, weight)),
                       FMul(OverlayPixel(na[i], nb[i]), weight))
        ELSE IF mode = "Min"
             THEN FMinimum(na[i], FAdd(FMul(nb[i], weight),
                                       FMul(na[i], FSub(One, weight))))
        ELSE IF mode = "Max"
             THEN FMaximum(na[i], FAdd(FMul(nb[i], weight),
                                       FMul(na[i], FSub(One, weight))))
        ELSE na[i]]

\* the two layers have been generated; the GUI starts with Mix at 0.5
BlendInit ==
    /\ noise_a \in [1 .. FieldLen -> PixelValues]
    /\ noise_b \in [1 .. FieldLen -> PixelValues]
    /\ mix_weight = Half
    /\ blend_mode = "Mix"
    /\ blendOut = NoBlend

\* the noise GUI is not running
BlendIdle ==
    /\ noise_a = <<>>
    /\ noise_b = <<>>
    /\ mix_weight = Half
    /\ blend_mode = "Mix"
    /\ blendOut = NoBlend

on_blend_changed ==
    /\ blendOut = NoBlend
    /\ \E text \in BlendModes : blend_mode' = text
    /\ UNCHANGED <<noise_a, noise_b, mix_weight, blendOut>>
    /\ UNCHANGED notBlend

on_weight_changed ==
    /\ blendOut = NoBlend
    /\ \E value \in WeightStops : mix_weight' = FDiv(FInt(value), FInt(100))
    /\ UNCHANGED <<noise_a, noise_b, blend_mode, blendOut>>
    /\ UNCHANGED notBlend

\* NoiseWorker.run blends the two layers for the preview
WorkerBlend ==
    /\ blendOut = NoBlend
    /\ blendOut' = [by |-> "worker",
                    field |-> NoiseWorker_blend_noise(noise_a, noise_b,
                                                      mix_weight, blend_mode)]
    /\ UNCHANGED <<noise_a, noise_b, mix_weight, blend_mode>>
    /\ UNCHANGED notBlend

\* generate_composite_noise blends the two layers for an export
CompositeBlend ==
    /\ blendOut = NoBlend
    /\ blendOut' = [by |-> "gui",
                    field |-> NoiseGeneratorGUI_blend_noise(noise_a, noise_b,
                                                      mix_weight, blend_mode)]
    /\ UNCHANGED <<noise_a, noise_b, mix_weight, blend_mode>>
    /\ UNCHANGED notBlend

\* the blend is shown or written, the handler returns
BlendDone ==
    /\ blendOut # NoBlend
    /\ blendOut' = NoBlend
    /\ UNCHANGED <<noise_a, noise_b, mix_weight, blend_mode>>
    /\ UNCHANGED notBlend

BlendNext ==
    \/ on_blend_changed
    \/ on_weight_changed
    \/ WorkerBlend
    \/ CompositeBlend
    \/ BlendDone


-----------------------------------------------------------------------------
(* Layer blender: properties                                               *)

\* C5: blending with mode Mix returns layer A for weight 0 and layer B for
\* weight 1, pixel for pixel.
C5_BlendIdentity ==
    (blendOut # NoBlend /\ blend_mode = "Mix") =>
        /\ (mix_weight = Zero => blendOut.field = noise_a)
        /\ (mix_weight = One => blendOut.field = noise_b)

\* a Mix at weight 1 of two layers that differ in every pixel
C5_Witness ==
    /\ blendOut # NoBlend /\ blend_mode = "Mix" /\ mix_weight = One
    /\ \A i \in 1 .. FieldLen : noise_a[i] # noise_b[i]
    /\ blendOut.field = noise_b

\* the operator table of the spec, a and b the pixels, w the weight
SpecBlendTable(a, b, w, mode) ==
    CASE mode = "Mix" -> FAdd(FMul(a, FSub(One, w)), FMul(b, w))
      [] mode = "Add" ->
            LET r == FAdd(a, FMul(b, w))
            IN  FMaximum(Zero, FMinimum(One, r))
      [] mode = "Multiply" -> FMul(a, FAdd(FMul(b, w), FSub(One, w)))
      [] mode = "Screen" ->
            FSub(One, FMul(FSub(One, a), FSub(One, FMul(b, w))))
      [] mode = "Overlay" ->
            LET r == IF FLt(a, Half)
                     THEN FMul(Two, FMul(a, b))
                     ELSE FSub(One, FMul(Two, FMul(FSub(One, a),
                                                   FSub(One, b))))
            IN  FAdd(FMul(a, FSub(One, w)), FMul(r, w))
      [] mode = "Min" ->
            FMinimum(a, FAdd(FMul(b, w), FMul(a, FSub(One, w))))
      [] mode = "Max" ->
            FMaximum(a, FAdd(FMul(b, w), FMul(a, FSub(One, w))))

\* C6: for each of the seven modes, every pixel of the blend is the value of
\* the spec's operator table, in the preview worker and in the export path.
C6_BlendTable ==
    blendOut # NoBlend =>
        \A i \in 1 .. FieldLen :
            blendOut.field[i] =
                SpecBlendTable(noise_a[i], noise_b[i], mix_weight, blend_mode)

\* an Overlay by the export path of a field with one pixel at 0.5 (second
\* formula) and one below (first formula), at a weight inside (0, 1)
C6_Witness ==
    /\ blendOut # NoBlend /\ blendOut.by = "gui" /\ blend_mode = "Overlay"
    /\ mix_weight = Half
    /\ noise_a[1] = Half /\ noise_a[2] = FRat(1, 4)
    /\ noise_b[1] = FRat(1, 4) /\ noise_b[2] = One
    /\ blendOut.field # noise_a

-----------------------------------------------------------------------------
(* Noise GUI: the noise composer                                           *)

\* largest number of pixels of a generated field
MaxPixels == 3

\* largest number of octaves of Ridged
MaxOctaves == 2

\* values of the noise primitive, all in [-1, 1]
RawValues == {FNeg(One), Zero, Half, One}

\* exponents of Turbulence (the power slider at 10, 20, 30)
Powers == {1, 2, 3}

NoiseTypes == {"Perlin", "Simplex", "FBM", "Turbulence", "Ridged",
               "Domain Warp"}

\* a type name generate does not know
UnknownType == "Cellular"

Shapes == {hw \in (1 .. MaxPixels) \X (1 .. MaxPixels) :
              hw[1] * hw[2] <= MaxPixels}

NoField == <<>>

Rows(f) == DOMAIN f

Cols(f) == DOMAIN f[0]

Pixels(f) == {f[y][x] : y \in Rows(f), x \in Cols(f)}

\* noise_map.min(), noise_map.max()
FieldMin(f) == CHOOSE v \in Pixels(f) : \A u \in Pixels(f) : FLe(v, u)

FieldMax(f) == CHOOSE v \in Pixels(f) : \A u \in Pixels(f) : FLe(u, v)

\* the literal 1e-10
Eps == RoundRat(17179869, 10000000, 0 - 34)

\* int(x) for x >= 0: the integer part
RECURSIVE IntPart(_)
IntPart(x) ==
    IF x[1] <= 0 THEN 0
    ELSE IF x[2] >= 0 THEN x[1] * Pow2(x[2])
    ELSE IntPart(<<x[1] \div 2, x[2] + 1>>)

\* x ** n for an integer-valued exponent n >= 1
RECURSIVE IPow(_, _)
IPow(m, n) == IF n <= 0 THEN 1 ELSE m * IPow(m, n - 1)

FPow(x, n) == RoundRat(IPow(x[1], n), 1, n * x[2])

\* the blend weight of index i on an axis of the given extent
BlendWeight(i, extent, blend) ==
    IF i < blend
    THEN FSub(One, FDiv(FInt(i), FInt(blend)))
    ELSE IF i >= extent - blend
         THEN FSub(One, FDiv(FInt(extent - 1 - i), FInt(blend)))
         ELSE Zero

\* the thickness of the blend band on an axis
BlendBand(extent, blend_width) ==
    IMax(2, IntPart(FMul(FInt(extent), blend_width)))

\* the nested loops of make_seamless_blend, for bands blend_h and blend_w
SeamlessBlend(noise_map, blend_h, blend_w) ==
    LET h == Cardinality(Rows(noise_map))
        w == Cardinality(Cols(noise_map))
        Px(y, x) ==
            LET blend_y == BlendWeight(y, h, blend_h)
                blend_x == BlendWeight(x, w, blend_w)
                p00 == noise_map[y][x]
                p01 == noise_map[y][(x + w \div 2) % w]
                p10 == noise_map[(y + h \div 2) % h][x]
                p11 == noise_map[(y + h \div 2) % h][(x + w \div 2) % w]
                top_blend == FAdd(FMul(FSub(One, blend_x), p00),
                                  FMul(blend_x, p01))
                bottom_blend == FAdd(FMul(FSub(One, blend_x), p10),
                                     FMul(blend_x, p11))
            IN  IF blend_y = Zero /\ blend_x = Zero
                THEN p00
                ELSE FAdd(FMul(FSub(One, blend_y), top_blend),
                          FMul(blend_y, bottom_blend))
    IN  [y \in Rows(noise_map) |-> [x \in Cols(noise_map) |-> Px(y, x)]]

make_seamless_blend(noise_map, blend_width) ==
    SeamlessBlend(noise_map,
                  BlendBand(Cardinality(Rows(noise_map)), blend_width),
                  BlendBand(Cardinality(Cols(noise_map)), blend_width))

\* the normalisation of _perlin and _fbm
NormalizeMinMax(noise_map) ==
    LET min_val == FieldMin(noise_map)
        max_val == FieldMax(noise_map)
        Norm(v) == FDiv(FSub(v, min_val), FSub(max_val, min_val))
    IN  IF FLt(Eps, FSub(max_val, min_val))
        THEN [y \in Rows(noise_map) |->
                 [x \in Cols(noise_map) |-> Norm(noise_map[y][x])]]
        ELSE noise_map

\* the normalisation of _turbulence and _ridged
NormalizeMax(noise_map) ==
    LET max_val == FieldMax(noise_map)
        Norm(v) == FDiv(v, FAdd(max_val, Eps))
    IN  IF FLt(Eps, max_val)
        THEN [y \in Rows(noise_map) |->
                 [x \in Cols(noise_map) |-> Norm(noise_map[y][x])]]
        ELSE noise_map

\* (noise_map + 1.0) * 0.5
RemapHalf(noise_map) ==
    LET Remap(v) == FMul(FAdd(v, One), Half)
    IN  [y \in Rows(noise_map) |->
            [x \in Cols(noise_map) |-> Remap(noise_map[y][x])]]

Seamless(result, seamless, blend_width) ==
    IF seamless THEN make_seamless_blend(result, blend_width) ELSE result

_perlin(prim, seamless, blend_width) ==
    Seamless(NormalizeMinMax(prim), seamless, blend_width)

_simplex(prim, seamless, blend_width) ==
    Seamless(RemapHalf(prim), seamless, blend_width)

_fbm(prim, seamless, blend_width) ==
    Seamless(NormalizeMinMax(prim), seamless, blend_width)

_turbulence(prim, pw, seamless, blend_width) ==
    LET Turb(v) == FPow(FAbs(v), pw)
        noise_map == [y \in Rows(prim) |->
                         [x \in Cols(prim) |-> Turb(prim[y][x])]]
    IN  Seamless(NormalizeMax(noise_map), seamless, blend_width)

\* the sum over the octaves at one pixel: v at the first octave, hi above
RECURSIVE RidgedSum(_, _, _, _, _)
RidgedSum(v, hi, o, n, amp) ==
    IF o > n THEN <<>>
    ELSE LET signal == FSub(One, FAbs(IF o = 1 THEN v ELSE hi))
             rest   == RidgedSum(v, hi, o + 1, n, FMul(amp, Half))
         IN  \* result += signal * amp, from the first octave on
             <<FMul(FMul(signal, signal), amp)>> \o rest

RECURSIVE SumSeq(_, _)
SumSeq(acc, terms) ==
    IF terms = <<>> THEN acc
    ELSE SumSeq(FAdd(acc, Head(terms)), Tail(terms))

_ridged(prim, hi, n, seamless, blend_width) ==
    LET Ridge(v) == SumSeq(Zero, RidgedSum(v, hi, 1, IMin(n, 10), One))
        noise_map == [y \in Rows(prim) |->
                         [x \in Cols(prim) |-> Ridge(prim[y][x])]]
    IN  Seamless(NormalizeMax(noise_map), seamless, blend_width)

_domain_warp(prim, seamless, blend_width) ==
    Seamless(RemapHalf(prim), seamless, blend_width)

\* NoiseGenerator.generate over the primitive's values at the pixels
generate(type, prim, hi, n, pw, inv, seamless, blend_width) ==
    LET Inv(v) == FSub(One, v)
        result ==
            IF type = "Perlin" THEN _perlin(prim, seamless, blend_width)
            ELSE IF type = "Simplex"
                 THEN _simplex(prim, seamless, blend_width)
            ELSE IF type = "FBM" THEN _fbm(prim, seamless, blend_width)
            ELSE IF type = "Turbulence"
                 THEN _turbulence(prim, pw, seamless, blend_width)
            ELSE IF type = "Ridged"
                 THEN _ridged(prim, hi, n, seamless, blend_width)
            ELSE IF type = "Domain Warp"
                 THEN _domain_warp(prim, seamless, blend_width)
            ELSE [y \in Rows(prim) |-> [x \in Cols(prim) |-> Zero]]
    IN  IF inv
        THEN [y \in Rows(result) |->
                 [x \in Cols(result) |-> Inv(result[y][x])]]
        ELSE result

\* a layer of some type and size; the primitive has its values; the sliders
\* of the parameters the type does not show are at their defaults
NoiseInit ==
    /\ noise_type \in NoiseTypes \cup {UnknownType}
    /\ shape \in Shapes
    /\ raw \in [0 .. shape[1] - 1 -> [0 .. shape[2] - 1 -> RawValues]]
    /\ octaves \in IF noise_type = "Ridged" THEN 1 .. MaxOctaves ELSE {1}
    /\ rawHi \in IF noise_type = "Ridged" /\ octaves > 1
                 THEN RawValues ELSE {Zero}
    /\ power \in IF noise_type = "Turbulence" THEN Powers ELSE {2}
    /\ invert = FALSE
    /\ seamless_tiling = TRUE
    /\ seamless_blend_width = FRat(1, 10)
    /\ field = NoField

\* the noise composer is not running
NoiseIdle ==
    /\ noise_type = "Perlin"
    /\ shape = <<1, 1>>
    /\ raw = <<>>
    /\ rawHi = Zero
    /\ octaves = 1
    /\ power = 2
    /\ invert = FALSE
    /\ seamless_tiling = TRUE
    /\ seamless_blend_width = FRat(1, 10)
    /\ field = NoField

on_invert_changed ==
    /\ field = NoField
    /\ \E invert_value \in BOOLEAN : invert' = invert_value
    /\ UNCHANGED <<noise_type, shape, raw, rawHi, octaves, power,
                   seamless_tiling, seamless_blend_width, field>>
    /\ UNCHANGED notNoise

on_tiling_changed ==
    /\ field = NoField
    /\ \E checked \in BOOLEAN : seamless_tiling' = checked
    /\ UNCHANGED <<noise_type, shape, raw, rawHi, octaves, power, invert,
                   seamless_blend_width, field>>
    /\ UNCHANGED notNoise

\* NoiseGenerator.generate is called for the layer
Generate ==
    /\ field = NoField
    /\ field' = generate(noise_type, raw, rawHi, octaves, power, invert,
                         seamless_tiling, seamless_blend_width)
    /\ UNCHANGED <<noise_type, shape, raw, rawHi, octaves, power, invert,
                   seamless_tiling, seamless_blend_width>>
    /\ UNCHANGED notNoise

\* the caller has used the field
GenerateDone ==
    /\ field # NoField
    /\ field' = NoField
    /\ UNCHANGED <<noise_type, shape, raw, rawHi, octaves, power, invert,
                   seamless_tiling, seamless_blend_width>>
    /\ UNCHANGED notNoise

NoiseNext ==
    \/ on_invert_changed
    \/ on_tiling_changed
    \/ Generate
    \/ GenerateDone

-----------------------------------------------------------------------------
(* Noise composer: properties                                              *)

In01(v) == FLe(Zero, v) /\ FLe(v, One)

\* C4: for every supported noise type and every field size, every value of
\* the field generate returns lies in [0, 1], the primitive returning values
\* in [-1, 1]; also when the raw field is passed through unnormalized.
C4_FieldIn01 ==
    (field # NoField /\ noise_type \in NoiseTypes) =>
        \A v \in Pixels(field) : In01(v)

\* C16: for a noise type outside the recognized set generate returns an
\* all-zero field of the requested shape, for every parameter bag (invert
\* included) and both values of seamless.
C16_UnknownTypeZero ==
    (field # NoField /\ noise_type \notin NoiseTypes) =>
        /\ Rows(field) = 0 .. shape[1] - 1
        /\ Cols(field) = 0 .. shape[2] - 1
        /\ \A v \in Pixels(field) : v = Zero

\* the field of the layer before the invert and the seamless step
PlainField ==
    generate(noise_type, raw, rawHi, octaves, power, FALSE, FALSE,
             seamless_blend_width)

\* 1 - F
Inverted(f) == [y \in Rows(f) |-> [x \in Cols(f) |-> FSub(One, f[y][x])]]

\* C17: with invert and seamless both set, the field generate returns is
\* the Seamless Tiler applied to the inverted field, inversion first and
\* tiling second: make_seamless_blend(1 - F) = 1 - make_seamless_blend(F).
C17_InvertBeforeSeamless ==
    (field # NoField /\ noise_type \in NoiseTypes /\ invert
        /\ seamless_tiling) =>
        /\ field = make_seamless_blend(Inverted(PlainField),
                                       seamless_blend_width)
        /\ make_seamless_blend(Inverted(PlainField), seamless_blend_width)
               = Inverted(make_seamless_blend(PlainField,
                                              seamless_blend_width))

-----------------------------------------------------------------------------
(* Noise GUI: the seamless tiler                                           *)

\* the blend width slider: 5% .. 40%, 10% when the window opens
BlendSliderMin == 5

BlendSliderMax == 40

BlendSliderDefault == 10

\* largest height and width of the fields that are tiled pixel by pixel
MaxTileExtent == 8

\* self.preview_size: the extent of the preview's fields
PreviewSize == 256

TileShapes == ((1 .. MaxTileExtent) \X (1 .. MaxTileExtent))
                  \cup {<<1, PreviewSize>>}

NoTile == [blend_h |-> 0]

\* a field whose rows differ in the mantissa and whose columns differ in the
\* exponent, so that no two pixels of an 8 x 8 block are equal; all in (0, 1)
TilePixel(y, x) == <<2 * (y % 8) + 1, 0 - ((x % 8) + 5)>>

TileField(hw) ==
    [y \in 0 .. hw[1] - 1 |-> [x \in 0 .. hw[2] - 1 |-> TilePixel(y, x)]]

\* max(2, int(extent * blend_width)) with blend_width = value / 100.0.
\* The quotient is computed exactly: for an extent below 100 and for an
\* extent that is a power of two the binary64 product lies on the same side
\* of every integer as extent * value / 100, so int() returns the same.
BlendBandOfSlider(extent, value) == IMax(2, (extent * value) \div 100)

\* the generators hand a field of some size to make_seamless_blend
TilerInit ==
    /\ blend_width_slider = BlendSliderDefault
    /\ tile_in \in {TileField(hw) : hw \in TileShapes}
    /\ tile_out = NoTile

\* the tiler is not running
TilerIdle ==
    /\ blend_width_slider = BlendSliderDefault
    /\ tile_in = NoField
    /\ tile_out = NoTile

on_blend_width_changed(value) ==
    /\ tile_out = NoTile
    /\ blend_width_slider' = value
    /\ seamless_blend_width' = FDiv(FInt(value), FInt(100))
    /\ update_timer' = TRUE
    /\ UNCHANGED <<tile_in, tile_out>>
    /\ UNCHANGED <<noise_type, shape, raw, rawHi, octaves, power, invert,
                   seamless_tiling, field>>
    /\ UNCHANGED <<gui_copy, worker, workers, posted, preview,
                   override_cursors, status_label>>
    /\ UNCHANGED <<animVars, blendVars, exportVars, raceVars, atlasVars,
                   nameVars, colorVars, edgeVars, warpVars,
                   spritePreviewVars, playbackVars, bagsVars>>

\* result = NoiseGenerator.make_seamless_blend(result, blend_width)
apply_seamless_blend ==
    /\ tile_out = NoTile
    /\ LET h == Cardinality(Rows(tile_in))
           w == Cardinality(Cols(tile_in))
           blend_h == BlendBandOfSlider(h, blend_width_slider)
           blend_w == BlendBandOfSlider(w, blend_width_slider)
       IN  tile_out' = [blend_h |-> blend_h, blend_w |-> blend_w,
                        result |-> SeamlessBlend(tile_in, blend_h, blend_w)]
    /\ UNCHANGED <<blend_width_slider, tile_in>>
    /\ UNCHANGED <<noiseVars, notTiler>>

TileDone ==
    /\ tile_out # NoTile
    /\ tile_out' = NoTile
    /\ UNCHANGED <<blend_width_slider, tile_in>>
    /\ UNCHANGED <<noiseVars, notTiler>>

TilerNext ==
    \/ \E value \in BlendSliderMin .. BlendSliderMax :
           on_blend_width_changed(value)
    \/ apply_seamless_blend
    \/ TileDone

\* round(n / d) for n >= 0, d > 0, halves upwards
RoundDiv(n, d) == (2 * n + d) \div (2 * d)

\* the band thickness the specification gives
SpecBand(extent, value) == IMax(2, RoundDiv(extent * value, 100))

\* C18: the thickness of the blend band of make_seamless_blend is
\* max(2, round(extent * blendWidth)) on both axes, for every blend width
\* the slider can produce
C18_BandIsRounded ==
    tile_out # NoTile =>
        /\ tile_out.blend_h
               = SpecBand(Cardinality(Rows(tile_in)), blend_width_slider)
        /\ tile_out.blend_w
               = SpecBand(Cardinality(Cols(tile_in)), blend_width_slider)

\* C19: on a field of two or more rows, a pixel of row 0 or of the last row
\* that lies outside the horizontal bands has blend weight 1 and is the input
\* pixel half a period further down; the same for the first and the last
\* column outside the vertical bands
C19_EdgeRowsAreShiftedCopies ==
    tile_out # NoTile =>
        LET h == Cardinality(Rows(tile_in))
            w == Cardinality(Cols(tile_in))
            blend_y(y) == BlendWeight(y, h, tile_out.blend_h)
            blend_x(x) == BlendWeight(x, w, tile_out.blend_w)
        IN  /\ h >= 2 =>
                   \A y \in {0, h - 1}, x \in Cols(tile_in) :
                       blend_x(x) = Zero =>
                           /\ blend_y(y) = One
                           /\ tile_out.result[y][x]
                                  = tile_in[(y + h \div 2) % h][x]
            /\ w >= 2 =>
                   \A x \in {0, w - 1}, y \in Rows(tile_in) :
                       blend_y(y) = Zero =>
                           /\ blend_x(x) = One
                           /\ tile_out.result[y][x]
                                  = tile_in[y][(x + w \div 2) % w]

-----------------------------------------------------------------------------
(* Both GUIs: versioned names of the single-image exports                  *)

\* A path is the chain of version suffixes behind the base name:
\* <<>> is base.png, <<3>> is base_v03.png, <<3, 0>> is base_v03_v00.png.

\* the last version the sprite GUI tries
LastVersion == 99

\* longest chain of suffixes the noise GUI's exports build up
MaxSuffixes == 2

NoNamed == [op |-> "none"]

\* the first version for which base_vNN.png does not exist
RECURSIVE FirstFreeSuffix(_, _)
FirstFreeSuffix(base, version) ==
    IF Append(base, version) \in png_files
    THEN FirstFreeSuffix(base, version + 1)
    ELSE version

\* get_versioned_filename of the noise GUI
noise_get_versioned_filename(base_path) ==
    Append(base_path, FirstFreeSuffix(base_path, 0))

\* get_versioned_filename of the sprite GUI
sprite_get_versioned_filename(filepath) ==
    IF filepath \notin png_files THEN filepath
    ELSE IF FirstFreeSuffix(filepath, 0) > LastVersion THEN filepath
    ELSE Append(filepath, FirstFreeSuffix(filepath, 0))

\* the base name exists or not, and so do its first versions
NameInit ==
    /\ \E plain \in BOOLEAN, count \in 0 .. LastVersion + 1 :
           png_files = (IF plain THEN {<<>>} ELSE {})
                           \cup {<<version>> : version \in 0 .. count - 1}
    /\ output_path = <<>>
    /\ named = NoNamed

\* nothing has been exported
NameIdle ==
    /\ png_files = {}
    /\ output_path = <<>>
    /\ named = NoNamed

\* export_sprite of the sprite GUI with the file dialog's default name and
\* animated_output unset: export_single_sprite saves to the versioned path;
\* save_ok is whether generate and image.save succeed
export_single_sprite ==
    \E save_ok \in BOOLEAN :
        LET filepath == sprite_get_versioned_filename(<<>>)
        IN  /\ png_files' = IF save_ok THEN png_files \cup {filepath}
                            ELSE png_files
            /\ named' = [op |-> "export_single_sprite", path |-> filepath,
                         saved |-> save_ok, before |-> png_files]
            /\ UNCHANGED output_path
            /\ UNCHANGED notName

\* export_single of the noise GUI: saves to the versioned path and shows
\* that path in the output path field; save_ok is whether generating and
\* img.save succeed
export_single ==
    \E save_ok \in BOOLEAN :
        LET versioned_path == noise_get_versioned_filename(output_path)
        IN  /\ Len(output_path) < MaxSuffixes
            /\ png_files' = IF save_ok THEN png_files \cup {versioned_path}
                            ELSE png_files
            /\ output_path' = IF save_ok THEN versioned_path ELSE output_path
            /\ named' = [op |-> "export_single", path |-> versioned_path,
                         saved |-> save_ok, before |-> png_files]
            /\ UNCHANGED notName

NameNext ==
    \/ export_single_sprite
    \/ export_single

\* C21: every export of the noise GUI writes the base name X with one version
\* suffix, X_vNN, and NN is the first version not on disk, so that
\* consecutive exports write X_v00, X_v01, X_v02, ...
C21_VersionsIncrement ==
    (named # NoNamed /\ named.op = "export_single") =>
        /\ Len(named.path) = 1
        /\ \A version \in 0 .. named.path[1] - 1 :
               <<version>> \in named.before

\* C20: get_versioned_filename of either GUI never returns a path at which
\* a file exists, so an export never overwrites a file
C20_NeverReturnsExistingPath ==
    named # NoNamed => named.path \notin named.before

-----------------------------------------------------------------------------
(* Noise GUI: the preview worker                                           *)

\* largest number of NoiseWorker threads update_preview creates
MaxWorkers == 3

\* the packaged GUI and the older copy under src/tools
GuiCopies == {"makesomenoise", "tools"}

WorkerIds == 1 .. MaxWorkers

\* a NoiseWorker that is not created yet
NoWorker == [pc |-> "none", connected |-> FALSE, interruption |-> FALSE,
             layer_b |-> FALSE]

\* QThread.isRunning: from start() until the thread has finished
isRunning(w) == workers[w].pc \in {"start", "afterA", "afterB", "returning"}

\* self.isInterruptionRequested() where run checks it
isInterruptionRequested(w) ==
    gui_copy = "makesomenoise" /\ workers[w].interruption

\* self.finished.emit(result) on the worker's thread: the call of the
\* connected slot is queued in the event loop of the main thread
emit(w) == IF workers[w].connected THEN Append(posted, w) ELSE posted

\* __init__ ends with a call of update_preview
PreviewInit ==
    /\ gui_copy \in GuiCopies
    /\ worker = 1
    /\ \E b \in BOOLEAN :
          workers = [w \in WorkerIds |->
                        IF w = 1
                        THEN [pc |-> "start", connected |-> TRUE,
                              interruption |-> FALSE, layer_b |-> b]
                        ELSE NoWorker]
    /\ posted = <<>>
    /\ preview = 0
    /\ update_timer = FALSE
    /\ override_cursors = 1
    /\ status_label = "Rendering..."

\* the noise GUI is not open
PreviewIdle ==
    /\ gui_copy = "makesomenoise"
    /\ worker = 0
    /\ workers = [w \in WorkerIds |-> NoWorker]
    /\ posted = <<>>
    /\ preview = 0
    /\ update_timer = FALSE
    /\ override_cursors = 0
    /\ status_label = "Ready"

\* on_param_changed, on_blend_changed, on_weight_changed, on_tiling_changed:
\* each (re)starts the single-shot debounce timer
on_param_changed ==
    /\ worker # 0
    /\ update_timer' = TRUE
    /\ UNCHANGED <<gui_copy, worker, workers, posted, preview>>
    /\ UNCHANGED <<override_cursors, status_label>>
    /\ UNCHANGED notPreview

\* the timer's timeout calls update_preview
update_preview ==
    /\ update_timer
    /\ worker # 0 /\ worker < MaxWorkers
    /\ update_timer' = FALSE
    /\ \E b \in BOOLEAN :
          LET stop == gui_copy = "tools" \/ isRunning(worker)
              old  == IF stop
                      THEN [workers[worker] EXCEPT
                               !.connected = FALSE,
                               !.interruption = (gui_copy = "makesomenoise")]
                      ELSE workers[worker]
          IN  workers' = [workers EXCEPT
                             ![worker] = old,
                             ![worker + 1] = [pc |-> "start",
                                              connected |-> TRUE,
                                              interruption |-> FALSE,
                                              layer_b |-> b]]
    /\ worker' = worker + 1
    /\ status_label' = "Rendering..."
    /\ override_cursors' = override_cursors + 1
    /\ UNCHANGED <<gui_copy, posted, preview>>
    /\ UNCHANGED notPreview

\* NoiseWorker.run up to the end of layer A; an exception of generate is
\* caught and a black field is emitted
run_layer_a(w) ==
    /\ workers[w].pc = "start"
    /\ \E raised \in BOOLEAN :
          IF isInterruptionRequested(w)
          THEN /\ workers' = [workers EXCEPT ![w].pc = "returning"]
               /\ posted' = posted
          ELSE IF raised
          THEN /\ workers' = [workers EXCEPT ![w].pc = "returning"]
               /\ posted' = emit(w)
          ELSE /\ workers' = [workers EXCEPT ![w].pc = "afterA"]
               /\ posted' = posted
    /\ UNCHANGED <<gui_copy, worker, preview, update_timer>>
    /\ UNCHANGED <<override_cursors, status_label>>
    /\ UNCHANGED notPreview

\* NoiseWorker.run from the interruption check after layer A to the end of
\* layer B
run_layer_b(w) ==
    /\ workers[w].pc = "afterA"
    /\ \E raised \in BOOLEAN :
          IF isInterruptionRequested(w)
          THEN /\ workers' = [workers EXCEPT ![w].pc = "returning"]
               /\ posted' = posted
          ELSE IF ~workers[w].layer_b \/ raised
          THEN /\ workers' = [workers EXCEPT ![w].pc = "returning"]
               /\ posted' = emit(w)
          ELSE /\ workers' = [workers EXCEPT ![w].pc = "afterB"]
               /\ posted' = posted
    /\ UNCHANGED <<gui_copy, worker, preview, update_timer>>
    /\ UNCHANGED <<override_cursors, status_label>>
    /\ UNCHANGED notPreview

\* NoiseWorker.run from the interruption check after layer B: blend and emit
run_blend(w) ==
    /\ workers[w].pc = "afterB"
    /\ workers' = [workers EXCEPT ![w].pc = "returning"]
    /\ posted' = IF isInterruptionRequested(w) THEN posted ELSE emit(w)
    /\ UNCHANGED <<gui_copy, worker, preview, update_timer>>
    /\ UNCHANGED <<override_cursors, status_label>>
    /\ UNCHANGED notPreview

\* run has returned and the thread finishes
run_return(w) ==
    /\ workers[w].pc = "returning"
    /\ workers' = [workers EXCEPT ![w].pc = "finished"]
    /\ UNCHANGED <<gui_copy, worker, posted, preview, update_timer>>
    /\ UNCHANGED <<override_cursors, status_label>>
    /\ UNCHANGED notPreview

\* the event loop of the main thread delivers a queued finished signal;
\* restoreOverrideCursor does nothing on an empty cursor stack
on_preview_finished ==
    /\ posted # <<>>
    /\ preview' = Head(posted)
    /\ posted' = Tail(posted)
    /\ status_label' = "Ready"
    /\ override_cursors' = IMax(0, override_cursors - 1)
    /\ UNCHANGED <<gui_copy, worker, workers, update_timer>>
    /\ UNCHANGED notPreview

PreviewNext ==
    \/ on_param_changed
    \/ update_preview
    \/ \E w \in WorkerIds : run_layer_a(w)
    \/ \E w \in WorkerIds : run_layer_b(w)
    \/ \E w \in WorkerIds : run_blend(w)
    \/ \E w \in WorkerIds : run_return(w)
    \/ on_preview_finished

-----------------------------------------------------------------------------
(* Preview worker: properties                                              *)

\* C1: whenever on_preview_finished updates the preview, the result it shows
\* is that of the most recently started worker; the result of a worker that
\* update_preview has superseded is never delivered.
C1_NoStaleResult == [][preview' # preview => preview' = worker]_vars

\* all workers have finished and all delivered results are handled
PreviewQuiet ==
    /\ worker # 0
    /\ \A w \in WorkerIds : ~isRunning(w)
    /\ posted = <<>>

\* C28: every wait cursor update_preview pushes is popped by exactly one
\* restoreOverrideCursor: once all workers have finished and all results
\* are handled, no override cursor is outstanding and the status is not
\* left at "Rendering..."
C28_CursorRestored ==
    (gui_copy = "makesomenoise" /\ PreviewQuiet) =>
        /\ override_cursors = 0
        /\ status_label # "Rendering..."

-----------------------------------------------------------------------------
(* Both GUIs: batch exports                                                *)

\* largest number of frames of an export (frame_spin, frame_count)
MaxExportFrames == 3

\* the exports stop when this many versions of a name are on disk
MaxVersions == 2

\* a path on disk: what it is, its version (-1: no version suffix) and, for
\* the frame files of a sequence, the frame index (-1 otherwise)
Path(kind, version, frame) ==
    [kind |-> kind, version |-> version, frame |-> frame]

\* the version the while loop over os.path.exists stops at
RECURSIVE FirstFreeVersion(_, _)
FirstFreeVersion(kind, version) ==
    IF Path(kind, version, 0 - 1) \in disk
    THEN FirstFreeVersion(kind, version + 1)
    ELSE version

\* get_versioned_filename and get_versioned_folder_name of the noise GUI
NoiseGeneratorGUI_get_versioned_filename(kind) == FirstFreeVersion(kind, 0)

\* get_versioned_filename of the sprite GUI: the path itself when it is free
\* and when _v00 .. _v99 are all taken
SpriteGeneratorGUI_get_versioned_filename(kind) ==
    IF Path(kind, 0 - 1, 0 - 1) \notin disk THEN 0 - 1
    ELSE IF FirstFreeVersion(kind, 0) > LastVersion THEN 0 - 1
    ELSE FirstFreeVersion(kind, 0)

NoExport == [op |-> "none", failed |-> FALSE, before |-> {}]

ExportInit ==
    /\ disk = {}
    /\ last_export = NoExport

\* no export has been made
ExportIdle ==
    /\ disk = {}
    /\ last_export = NoExport

\* The batch exports are modelled for a user who types the same base name
\* into the output path field before each export.

\* export_atlas of the noise GUI: the frames go into the array atlas, the
\* file is written by the one img.save after the loop.  failed_frame is the
\* frame whose generation raises, num_frames if none does; save_ok is whether
\* img.save succeeds
export_atlas ==
    \E num_frames \in 1 .. MaxExportFrames :
    \E failed_frame \in 0 .. num_frames :
    \E save_ok \in BOOLEAN :
        LET version == NoiseGeneratorGUI_get_versioned_filename("noise_atlas")
            ok == failed_frame = num_frames /\ save_ok
        IN  /\ version < MaxVersions
            /\ disk' = IF ok
                       THEN disk \cup {Path("noise_atlas", version, 0 - 1)}
                       ELSE disk
            /\ last_export' = [op |-> "export_atlas", failed |-> ~ok,
                               before |-> disk]
            /\ UNCHANGED notExport

\* export_sequence of the noise GUI: os.makedirs, then each frame is
\* generated and saved inside the loop.  failed_frame is the frame whose
\* generation or img.save raises, num_frames if none does
export_sequence ==
    \E num_frames \in 1 .. MaxExportFrames :
    \E failed_frame \in 0 .. num_frames :
        LET version == NoiseGeneratorGUI_get_versioned_filename("sequence_folder")
            saved == {Path("sequence_frame", version, i) :
                         i \in 0 .. failed_frame - 1}
        IN  /\ version < MaxVersions
            /\ disk' = disk \cup {Path("sequence_folder", version, 0 - 1)}
                            \cup saved
            /\ last_export' = [op |-> "export_sequence",
                               failed |-> failed_frame < num_frames,
                               before |-> disk]
            /\ UNCHANGED notExport

\* export_sprite with animated_output set: export_animated_atlas pastes the
\* frames into the image atlas and writes the file by the one atlas.save
\* after the loop; export_sprite catches what it raises
export_animated_atlas ==
    \E total_frames \in 1 .. MaxExportFrames :
    \E failed_frame \in 0 .. total_frames :
    \E save_ok \in BOOLEAN :
        LET version == SpriteGeneratorGUI_get_versioned_filename("sprite_atlas")
            ok == failed_frame = total_frames /\ save_ok
        IN  /\ version < MaxVersions
            /\ disk' = IF ok
                       THEN disk \cup {Path("sprite_atlas", version, 0 - 1)}
                       ELSE disk
            /\ last_export' = [op |-> "export_animated_atlas", failed |-> ~ok,
                               before |-> disk]
            /\ UNCHANGED notExport

ExportNext ==
    \/ export_atlas
    \/ export_sequence
    \/ export_animated_atlas

-----------------------------------------------------------------------------
(* Batch exports: properties                                               *)

\* the files (not the folders) on disk
OutputFiles(paths) == {f \in paths : f.kind # "sequence_folder"}

\* C2: when generating or saving a frame failed partway through
\* export_atlas, export_sequence or export_animated_atlas, the export has
\* left no output file on disk.
C2_NoPartialOutput ==
    last_export.failed =>
        OutputFiles(disk) \subseteq OutputFiles(last_export.before)

-----------------------------------------------------------------------------
(* Sprite GUI: SpriteGenerator.generate on the preview and the main thread *)

\* largest value of params['octaves'] of a Noise sprite
MaxSpriteOctaves == 2

\* the preview thread (SpriteGeneratorThread.run) and the main thread
\* (generate_export_preview, export_single_sprite, export_animated_atlas)
Threads == {"preview", "main"}

\* Circle stands for the ten types that draw no random numbers
SpriteTypes == {"Circle", "Flame", "Noise"}

\* values of params['seed']
Seeds == {7, 42}

NoGen == [pc |-> "idle", sprite_type |-> "Circle", seed |-> 42,
          octaves |-> 1, turbulence |-> FALSE, drawn |-> <<>>]

\* np.random.seed(seed): the global generator restarts its stream
np_random_seed(seed) == [seed |-> seed, pos |-> 0]

\* np.random.rand(h, w): the array is determined by the stream and the
\* position in it, and the position advances
np_random_rand(st) == <<st.seed, st.pos>>

np_random_advance(st) == [st EXCEPT !.pos = @ + 1]

\* how many times a call of generate calls np.random.rand
RandCalls(g) ==
    IF g.sprite_type = "Flame" THEN (IF g.turbulence THEN 1 ELSE 0)
    ELSE IF g.sprite_type = "Noise" THEN g.octaves
    ELSE 0

\* the calls generate can make
GenCalls ==
    {[pc |-> "called", sprite_type |-> "Circle", seed |-> 42, octaves |-> 1,
      turbulence |-> FALSE, drawn |-> <<>>]}
    \cup {[pc |-> "called", sprite_type |-> "Flame", seed |-> s,
           octaves |-> 1, turbulence |-> tb, drawn |-> <<>>] :
              s \in Seeds, tb \in BOOLEAN}
    \cup {[pc |-> "called", sprite_type |-> "Noise", seed |-> s,
           octaves |-> n, turbulence |-> FALSE, drawn |-> <<>>] :
              s \in Seeds, n \in 1 .. MaxSpriteOctaves}

\* the generator was seeded by the system when numpy was imported
RaceInit ==
    /\ np_random = [seed |-> 0, pos |-> 0]
    /\ gen = [t \in Threads |-> NoGen]

\* the sprite generator is not running
RaceIdle ==
    /\ np_random = [seed |-> 0, pos |-> 0]
    /\ gen = [t \in Threads |-> NoGen]

\* a thread calls SpriteGenerator.generate
SpriteGenerator_generate(t) ==
    /\ gen[t].pc = "idle"
    /\ \E g \in GenCalls : gen' = [gen EXCEPT ![t] = g]
    /\ UNCHANGED np_random
    /\ UNCHANGED notRace

\* generate up to and including np.random.seed(seed) in _flame and _noise;
\* the other types return without touching the generator
generate_seed(t) ==
    /\ gen[t].pc = "called"
    /\ IF gen[t].sprite_type \in {"Flame", "Noise"}
       THEN /\ np_random' = np_random_seed(gen[t].seed)
            /\ gen' = [gen EXCEPT ![t].pc =
                          IF RandCalls(gen[t]) > 0 THEN "seeded"
                          ELSE "returned"]
       ELSE /\ np_random' = np_random
            /\ gen' = [gen EXCEPT ![t].pc = "returned"]
    /\ UNCHANGED notRace

\* generate up to and including the next np.random.rand(...)
generate_rand(t) ==
    /\ gen[t].pc = "seeded"
    /\ LET drawn == Append(gen[t].drawn, np_random_rand(np_random))
       IN  gen' = [gen EXCEPT ![t].drawn = drawn,
                              ![t].pc = IF Len(drawn) = RandCalls(gen[t])
                                        THEN "returned" ELSE "seeded"]
    /\ np_random' = np_random_advance(np_random)
    /\ UNCHANGED notRace

\* the caller takes the sprite: on_preview_ready, or the export handler
generate_done(t) ==
    /\ gen[t].pc = "returned"
    /\ gen' = [gen EXCEPT ![t] = NoGen]
    /\ UNCHANGED np_random
    /\ UNCHANGED notRace

RaceNext ==
    \/ \E t \in Threads : SpriteGenerator_generate(t)
    \/ \E t \in Threads : generate_seed(t)
    \/ \E t \in Threads : generate_rand(t)
    \/ \E t \in Threads : generate_done(t)

-----------------------------------------------------------------------------
(* Sprite generator on two threads: properties                             *)

\* the random arrays a call draws when no other call runs
RECURSIVE DrawnAlone(_, _)
DrawnAlone(st, n) ==
    IF n = 0 THEN <<>>
    ELSE <<np_random_rand(st)>> \o DrawnAlone(np_random_advance(st), n - 1)

\* C3: a call of SpriteGenerator.generate that interleaves with a call on
\* the other thread returns the field it returns when run alone: the random
\* arrays the field is computed from are those of a run alone, for every
\* sprite type.
C3_GenerateIsPure ==
    \A t \in Threads :
        gen[t].pc = "returned" =>
            gen[t].drawn = DrawnAlone(np_random_seed(gen[t].seed),
                                      RandCalls(gen[t]))

-----------------------------------------------------------------------------
(* Both GUIs: atlas layout and packing                                     *)

\* frame_spin of the sprite GUI: setMinimum
SpriteFrameSpinMin == 2

\* largest value of frame_spin of the sprite GUI (the spin box goes to 64)
MaxSpriteFrames == 17

\* largest value of atlas_cols_spin and atlas_rows_spin (the GUI's spin
\* boxes go to 16)
MaxAtlasSpin == 5

\* frame_spin of the noise GUI: setMaximum
NoiseFrameSpinMax == 256

\* the cap of the cell size in the atlas preview
PreviewCellCap == 512

AtlasModes == {"Auto (Square)", "Row Only", "Column Only", "Manual"}

\* export resolutions (two of the items of resolution_combo / atlas_size_combo)
FrameSizes == {64, 256}

NoAtlas == [by |-> "none"]

NoSequence == [frames |-> 0]

\* the two programs; the fields of the sprite GUI keep their initial values
\* when the noise GUI runs
Apps == {"fxspritemaker", "makesomenoise"}

\* math.ceil(math.sqrt(n)) for n in 1 .. 256: the least c with c * c >= n
\* (the square root of a perfect square is exact, that of another integer
\* is more than an ulp away from an integer)
CeilSqrt(n) == CHOOSE c \in 1 .. n : c * c >= n /\ (c - 1) * (c - 1) < n

\* a division that rounds down
CeilDiv_Floor(n, cols) == n \div cols

\* math.ceil(n / cols) for n, cols in 1 .. 256
CeilDiv(n, cols) == (n + cols - 1) \div cols

\* QSpinBox.setValue clamps to the range of the spin box
SpinValue(v) == IMax(1, IMin(MaxAtlasSpin, v))

\* the grid auto_calculate_atlas_layout computes when the mode is not Manual
AutoLayout(mode, n) ==
    IF mode = "Row Only" THEN [cols |-> n, rows |-> 1]
    ELSE IF mode = "Column Only" THEN [cols |-> 1, rows |-> n]
    ELSE [cols |-> CeilSqrt(n), rows |-> CeilDiv(n, CeilSqrt(n))]

\* __init__: the fields, the widgets, then on_atlas_mode_changed("Auto
\* (Square)")
AtlasInit ==
    /\ app \in Apps
    /\ frame_count = 16
    /\ atlas_mode = "Auto (Square)"
    /\ atlas_cols = 4
    /\ atlas_rows = 4
    /\ atlas_cols_spin = 4
    /\ atlas_rows_spin = 4
    /\ atlas = NoAtlas
    /\ sequence = NoSequence

\* the atlas controls are not used
AtlasIdle ==
    /\ app = "fxspritemaker"
    /\ frame_count = 16
    /\ atlas_mode = "Auto (Square)"
    /\ atlas_cols = 4
    /\ atlas_rows = 4
    /\ atlas_cols_spin = 4
    /\ atlas_rows_spin = 4
    /\ atlas = NoAtlas
    /\ sequence = NoSequence

\* auto_calculate_atlas_layout for the given mode and frame count
auto_calculate_atlas_layout(mode, n) ==
    IF mode = "Manual"
    THEN UNCHANGED <<atlas_cols, atlas_rows, atlas_cols_spin, atlas_rows_spin>>
    ELSE LET g == AutoLayout(mode, n)
         IN  /\ atlas_cols_spin' = SpinValue(g.cols)
             /\ atlas_rows_spin' = SpinValue(g.rows)
             /\ atlas_cols' = g.cols
             /\ atlas_rows' = g.rows

on_frame_count_changed ==
    /\ app = "fxspritemaker"
    /\ atlas = NoAtlas /\ sequence = NoSequence
    /\ \E value \in SpriteFrameSpinMin .. MaxSpriteFrames :
          /\ value # frame_count
          /\ frame_count' = value
          /\ auto_calculate_atlas_layout(atlas_mode, value)
    /\ UNCHANGED <<app, sequence, atlas_mode, atlas>>
    /\ UNCHANGED notAtlas

on_atlas_mode_changed ==
    /\ app = "fxspritemaker"
    /\ atlas = NoAtlas /\ sequence = NoSequence
    /\ \E mode \in AtlasModes :
          /\ mode # atlas_mode
          /\ atlas_mode' = mode
          /\ auto_calculate_atlas_layout(mode, frame_count)
    /\ UNCHANGED <<app, sequence, frame_count, atlas>>
    /\ UNCHANGED notAtlas

\* a spin box, enabled in Manual mode only, is edited
on_atlas_layout_changed ==
    /\ app = "fxspritemaker"
    /\ atlas = NoAtlas /\ sequence = NoSequence
    /\ atlas_mode = "Manual"
    /\ \E value \in 1 .. MaxAtlasSpin :
          \/ /\ value # atlas_cols_spin
             /\ atlas_cols_spin' = value
             /\ atlas_rows_spin' = atlas_rows_spin
          \/ /\ value # atlas_rows_spin
             /\ atlas_rows_spin' = value
             /\ atlas_cols_spin' = atlas_cols_spin
    /\ atlas_rows' = atlas_rows_spin'
    /\ atlas_cols' = atlas_cols_spin'
    /\ UNCHANGED <<app, sequence, frame_count, atlas_mode, atlas>>
    /\ UNCHANGED notAtlas

\* a frame total that ignores the grid
TotalFrames_All(n, cols, rows) == n

\* total_frames = min(self.frame_count, self.atlas_rows * self.atlas_cols)
TotalFrames(n, cols, rows) == IMin(n, rows * cols)

\* a paste loop that takes the row from a grid one column wider
Pasted_WiderRow(total_frames, cols, frame_size) ==
    [i \in 1 .. total_frames |->
        [frame |-> i - 1,
         x |-> ((i - 1) % cols) * frame_size,
         y |-> ((i - 1) \div (cols + 1)) * frame_size]]

\* the paste loop: frame i goes to column i mod cols, row i div cols
Pasted(total_frames, cols, frame_size) ==
    [i \in 1 .. total_frames |->
        [frame |-> i - 1,
         x |-> ((i - 1) % cols) * frame_size,
         y |-> ((i - 1) \div cols) * frame_size]]

\* export_animated_atlas of the sprite GUI: the atlas image and its pastes
export_animated_atlas_paste ==
    /\ app = "fxspritemaker"
    /\ atlas = NoAtlas /\ sequence = NoSequence
    /\ \E resolution \in FrameSizes :
          LET total_frames == TotalFrames(frame_count, atlas_cols, atlas_rows)
          IN  atlas' = [by |-> "export_animated_atlas",
                        frame_size |-> resolution,
                        frames |-> frame_count,
                        width |-> resolution * atlas_cols,
                        height |-> resolution * atlas_rows,
                        pasted |-> Pasted(total_frames, atlas_cols,
                                          resolution)]
    /\ UNCHANGED <<app, sequence, frame_count, atlas_mode, atlas_cols, atlas_rows,
                   atlas_cols_spin, atlas_rows_spin>>
    /\ UNCHANGED notAtlas

\* generate_export_preview of the sprite GUI in the Atlas preview mode
generate_export_preview ==
    /\ app = "fxspritemaker"
    /\ atlas = NoAtlas /\ sequence = NoSequence
    /\ \E export_res \in FrameSizes :
          LET cell_size == IMin(export_res, PreviewCellCap)
              total_frames == TotalFrames(frame_count, atlas_cols, atlas_rows)
          IN  atlas' = [by |-> "generate_export_preview",
                        frame_size |-> cell_size,
                        frames |-> frame_count,
                        width |-> cell_size * atlas_cols,
                        height |-> cell_size * atlas_rows,
                        pasted |-> Pasted(total_frames, atlas_cols,
                                          cell_size)]
    /\ UNCHANGED <<app, sequence, frame_count, atlas_mode, atlas_cols, atlas_rows,
                   atlas_cols_spin, atlas_rows_spin>>
    /\ UNCHANGED notAtlas

\* export_atlas of the noise GUI: the grid and the slice assignments
export_atlas_paste ==
    /\ app = "makesomenoise"
    /\ atlas = NoAtlas /\ sequence = NoSequence
    /\ \E num_frames \in 1 .. NoiseFrameSpinMax :
       \E frame_size \in FrameSizes :
          LET cols == CeilSqrt(num_frames)
              rows == CeilDiv(num_frames, cols)
          IN  atlas' = [by |-> "export_atlas",
                        frame_size |-> frame_size,
                        frames |-> num_frames,
                        width |-> cols * frame_size,
                        height |-> rows * frame_size,
                        pasted |-> Pasted(num_frames, cols, frame_size)]
    /\ UNCHANGED <<app, sequence, frame_count, atlas_mode, atlas_cols, atlas_rows,
                   atlas_cols_spin, atlas_rows_spin>>
    /\ UNCHANGED notAtlas

\* str(i) for i >= 0: the decimal digits
RECURSIVE Digits(_)
Digits(i) == IF i < 10 THEN <<i>> ELSE Digits(i \div 10) \o <<i % 10>>

\* f"{i:0{width}d}": the digits, zero-padded on the left to width
RECURSIVE ZeroPadded(_, _)
ZeroPadded(digits, width) ==
    IF Len(digits) >= width THEN digits
    ELSE ZeroPadded(<<0>> \o digits, width)

\* the digits of the frame index in frame_filename
FrameDigits(i, num_frames) ==
    LET padding_width == Len(Digits(num_frames))
    IN  ZeroPadded(Digits(i), padding_width)

\* export_sequence of the noise GUI: the names of the frame files it saves
\* (prefix and extension are the same for all frames)
export_sequence_names ==
    /\ app = "makesomenoise"
    /\ atlas = NoAtlas /\ sequence = NoSequence
    /\ \E num_frames \in 1 .. NoiseFrameSpinMax :
          sequence' = [frames |-> num_frames,
                       names |-> [i \in 1 .. num_frames |->
                                     FrameDigits(i - 1, num_frames)]]
    /\ UNCHANGED <<app, atlas, frame_count, atlas_mode, atlas_cols,
                   atlas_rows, atlas_cols_spin, atlas_rows_spin>>
    /\ UNCHANGED notAtlas

\* the export is over
SequenceDone ==
    /\ sequence # NoSequence
    /\ sequence' = NoSequence
    /\ UNCHANGED <<app, atlas, frame_count, atlas_mode, atlas_cols,
                   atlas_rows, atlas_cols_spin, atlas_rows_spin>>
    /\ UNCHANGED notAtlas

\* the atlas is saved or shown
AtlasDone ==
    /\ atlas # NoAtlas
    /\ atlas' = NoAtlas
    /\ UNCHANGED <<app, sequence, frame_count, atlas_mode, atlas_cols, atlas_rows,
                   atlas_cols_spin, atlas_rows_spin>>
    /\ UNCHANGED notAtlas

AtlasNext ==
    \/ on_frame_count_changed
    \/ on_atlas_mode_changed
    \/ on_atlas_layout_changed
    \/ export_animated_atlas_paste
    \/ generate_export_preview
    \/ export_atlas_paste
    \/ AtlasDone
    \/ export_sequence_names
    \/ SequenceDone

-----------------------------------------------------------------------------
(* Atlas layout and packing: properties                                    *)

\* C11: after any sequence of frame-count changes, atlas-mode changes and
\* manual edits of the cols/rows spin boxes, the layout of the sprite GUI
\* holds all frames: atlas_cols * atlas_rows >= frame_count.
C11_LayoutCoversFrames == atlas_cols * atlas_rows >= frame_count

\* the AutoSquare grid cols x rows for n frames covers them and is minimal
MinimalSquareGrid(n, cols, rows) ==
    /\ cols * rows >= n
    /\ rows <= cols
    /\ (rows - 1) * cols < n
    /\ (cols - 1) * (cols - 1) < n
    /\ (n = 16 => cols = 4 /\ rows = 4)
    /\ (n = 17 => cols = 5 /\ rows = 4)

\* C12: the AutoSquare layout of both GUIs, cols = ceil(sqrt(n)) and
\* rows = ceil(n / cols), covers the n frames and is minimal: rows <= cols,
\* no empty row, (cols - 1)^2 < n; 16 frames give 4 x 4, 17 give 5 x 4.
C12_AutoSquareMinimal ==
    /\ (app = "fxspritemaker" /\ atlas_mode = "Auto (Square)") =>
           MinimalSquareGrid(frame_count, atlas_cols, atlas_rows)
    /\ (atlas # NoAtlas /\ atlas.by = "export_atlas") =>
           MinimalSquareGrid(atlas.frames, atlas.width \div atlas.frame_size,
                             atlas.height \div atlas.frame_size)

\* 17 frames in the noise GUI's atlas
C12_Witness ==
    /\ atlas # NoAtlas /\ atlas.by = "export_atlas" /\ atlas.frames = 17
    /\ atlas.width = 5 * atlas.frame_size
    /\ atlas.height = 4 * atlas.frame_size

\* the pixel regions of two pastes have no pixel in common
Disjoint(p, q, size) ==
    \/ p.x + size <= q.x \/ q.x + size <= p.x
    \/ p.y + size <= q.y \/ q.y + size <= p.y

\* C13: in a packed atlas frame i is at column i mod cols, row i div cols,
\* origin (col * frameSize, row * frameSize); the regions of two packed
\* frames are disjoint and every region lies inside the atlas.
C13_PackingSafe ==
    atlas # NoAtlas =>
        LET size == atlas.frame_size
            cols == atlas.width \div size
            n == Len(atlas.pasted)
        IN  /\ \A i \in 1 .. n :
                  LET p == atlas.pasted[i]
                  IN  /\ p.x = (p.frame % cols) * size
                      /\ p.y = (p.frame \div cols) * size
                      /\ 0 <= p.x /\ p.x + size <= atlas.width
                      /\ 0 <= p.y /\ p.y + size <= atlas.height
            /\ \A i \in 1 .. n : \A j \in (i + 1) .. n :
                  Disjoint(atlas.pasted[i], atlas.pasted[j], size)

\* a sprite atlas of a Manual grid with more than one row and a last row
\* that is not full
C13_Witness ==
    /\ atlas # NoAtlas /\ atlas.by = "export_animated_atlas"
    /\ atlas_mode = "Manual" /\ atlas_cols = 3 /\ atlas_rows = 3
    /\ Len(atlas.pasted) = 7

\* the grid cells of an atlas that hold a frame
FilledCells(a) ==
    {<<p.x \div a.frame_size, p.y \div a.frame_size>> :
        p \in {a.pasted[i] : i \in 1 .. Len(a.pasted)}}

\* C14: with a Manual grid the sprite atlas export and the atlas preview
\* pack exactly min(frameCount, cols * rows) frames, the lowest-indexed
\* ones; the other cells keep the background, and frames that do not fit
\* are dropped (the handler returns an atlas, it does not raise).
C14_ManualGridPacking ==
    (atlas # NoAtlas /\ atlas.by # "export_atlas" /\ atlas_mode = "Manual") =>
        LET cells == atlas_cols * atlas_rows
            total == IF frame_count < cells THEN frame_count ELSE cells
        IN  /\ Len(atlas.pasted) = total
            /\ \A i \in 1 .. total : atlas.pasted[i].frame = i - 1
            /\ Cardinality(FilledCells(atlas)) = total
            /\ atlas.width = atlas_cols * atlas.frame_size
            /\ atlas.height = atlas_rows * atlas.frame_size

\* a Manual grid too small for the frames, exported
C14_Witness ==
    /\ atlas # NoAtlas /\ atlas.by = "export_animated_atlas"
    /\ atlas_mode = "Manual" /\ atlas_cols * atlas_rows < frame_count
    /\ Len(atlas.pasted) = atlas_cols * atlas_rows

\* a Manual grid with cells to spare, exported
C14_WitnessExcess ==
    /\ atlas # NoAtlas /\ atlas.by = "export_animated_atlas"
    /\ atlas_mode = "Manual" /\ atlas_cols * atlas_rows > frame_count
    /\ Len(atlas.pasted) = frame_count

\* C15: in export_sequence the name of frame i carries the frame index
\* zero-padded to exactly len(str(frameCount - 1)) digits, for every frame
\* count 1..256.
C15_SequencePadding ==
    sequence # NoSequence =>
        \A i \in 1 .. sequence.frames :
            Len(sequence.names[i]) = Len(Digits(sequence.frames - 1))

-----------------------------------------------------------------------------
(* Sprite generator: colour and alpha of a pixel                           *)

\* Intensities and alpha are counted in quarters, so that every product
\* below is exact in binary64 as it is in the integers.

\* largest intensity of a pixel, in quarters: _glow multiplies the falloff
\* by params['intensity'], which generate accepts above 1
MaxIntensityQ == 8

\* largest params['alpha'], in quarters
MaxAlphaQ == 5

\* values of params['color_r'], 'color_g', 'color_b'
ColorValues == {0, 255, 300}

NoRgba == <<>>

\* what x.astype(np.uint8) can give for the float x >= 0 with integer part
\* v: v itself when it fits; for a value out of range the C conversion is
\* undefined, and the builds give either the low eight bits or 255
astype_uint8(v) == IF v <= 255 THEN {v} ELSE {v % 256, 255}

\* the integer part of intensity * c for the colour component c
ColorProduct(intensity_q, c) == (intensity_q * c) \div 4

\* the integer part of intensity * alpha_mult * 255
AlphaProduct(intensity_q, alpha_q) == (intensity_q * alpha_q * 255) \div 16

\* a pixel of some intensity and the colour parameters of the sprite
ColorInit ==
    /\ px \in [intensity : 0 .. MaxIntensityQ,
               color_r : ColorValues, color_g : ColorValues,
               color_b : ColorValues, alpha : 0 .. MaxAlphaQ]
    /\ rgba = NoRgba

\* no sprite is being coloured
ColorIdle ==
    /\ px = [intensity |-> 0, color_r |-> 255, color_g |-> 255,
             color_b |-> 255, alpha |-> 4]
    /\ rgba = NoRgba

_apply_color_and_alpha ==
    /\ rgba = NoRgba
    /\ \E r \in astype_uint8(ColorProduct(px.intensity, px.color_r)),
          g \in astype_uint8(ColorProduct(px.intensity, px.color_g)),
          b \in astype_uint8(ColorProduct(px.intensity, px.color_b)),
          a \in astype_uint8(AlphaProduct(px.intensity, px.alpha)) :
           rgba' = <<r, g, b, a>>
    /\ UNCHANGED px
    /\ UNCHANGED notColor

ColorDone ==
    /\ rgba # NoRgba
    /\ rgba' = NoRgba
    /\ UNCHANGED px
    /\ UNCHANGED notColor

ColorNext ==
    \/ _apply_color_and_alpha
    \/ ColorDone

\* C22: every channel _apply_color_and_alpha writes is the product clamped
\* to [0, 255]; it never wraps modulo 256
C22_ChannelsAreClamped ==
    rgba # NoRgba =>
        /\ rgba[1] = IMin(255, ColorProduct(px.intensity, px.color_r))
        /\ rgba[2] = IMin(255, ColorProduct(px.intensity, px.color_g))
        /\ rgba[3] = IMin(255, ColorProduct(px.intensity, px.color_b))
        /\ rgba[4] = IMin(255, AlphaProduct(px.intensity, px.alpha))

-----------------------------------------------------------------------------
(* Sprite generator: the soft edge of the shapes                           *)

\* A pixel is given by its distance past the edge, dist - extent, in whole
\* pixels (negative inside the shape); softness is in pixels as well.
\* gradient and length_falloff are off.

\* largest distance of the pixel from the edge, to either side
MaxEdge == 2

\* largest softness in pixels
MaxSoftness == 2

SoftShapes == {"Circle", "Square", "Line", "N-Gon", "Star", "Ring", "Cross",
               "Sparkle"}

NoIntensity == [divisions |-> 0 - 1]

\* the result of a float operation that has no value
NaN == "nan"

\* x / softness for x an integer number of pixels, as numpy divides arrays:
\* a division by 0.0 gives inf, -inf or nan
DivBySoftness(x, softness) ==
    IF softness # 0 THEN FDiv(FInt(x), FInt(softness))
    ELSE IF x > 0 THEN "inf"
    ELSE IF x < 0 THEN "-inf"
    ELSE NaN

\* np.clip(1.0 - q, 0, 1) for a quotient q
ClipOneMinus(q) ==
    IF q = NaN THEN NaN
    ELSE IF q = "inf" THEN Zero
    ELSE IF q = "-inf" THEN One
    ELSE Clip01(FSub(One, q))

\* np.clip(q, 0, 1) for a quotient q
ClipQuotient(q) ==
    IF q = NaN THEN NaN
    ELSE IF q = "inf" THEN One
    ELSE IF q = "-inf" THEN Zero
    ELSE Clip01(q)

\* a * b and np.maximum(a, b) of two intensities: nan propagates
IntensityMul(a, b) == IF a = NaN \/ b = NaN THEN NaN ELSE FMul(a, b)

IntensityMax(a, b) == IF a = NaN \/ b = NaN THEN NaN ELSE FMaximum(a, b)

\* (dist <= extent).astype(float)
HardStep(edge) == IF edge <= 0 THEN One ELSE Zero

\* _circle, _square, _line, _ngon, _star: the falloff is behind
\* "if softness > 0", the hard step in the else branch
GuardedEdge(edge, softness) ==
    IF softness > 0
    THEN [intensity |-> ClipOneMinus(DivBySoftness(edge, softness)),
          divisions |-> 1]
    ELSE [intensity |-> HardStep(edge), divisions |-> 0]

\* _ring: outer_mask * inner_mask, edge2 = dist - inner_radius
_ring(edge, edge2, softness) ==
    [intensity |-> IntensityMul(ClipOneMinus(DivBySoftness(edge, softness)),
                                ClipQuotient(DivBySoftness(edge2, softness))),
     divisions |-> 2]

\* _cross: the maximum of the two bars, edge2 = dist_v - thickness/2
_cross(edge, edge2, softness) ==
    [intensity |-> IntensityMax(ClipOneMinus(DivBySoftness(edge, softness)),
                                ClipOneMinus(DivBySoftness(edge2, softness))),
     divisions |-> 2]

\* _sparkle: the perpendicular falloff of one ray
_sparkle(edge, softness) ==
    [intensity |-> ClipOneMinus(DivBySoftness(edge, softness)),
     divisions |-> 1]

\* the edge intensity of a pixel of the shape, and how often the code
\* divided by softness to get it
EdgeIntensity(sprite_type, edge, edge2, softness) ==
    IF sprite_type = "Ring" THEN _ring(edge, edge2, softness)
    ELSE IF sprite_type = "Cross" THEN _cross(edge, edge2, softness)
    ELSE IF sprite_type = "Sparkle" THEN _sparkle(edge, softness)
    ELSE GuardedEdge(edge, softness)

\* a pixel of a shape with a softness slider; the second distance is used by
\* Ring (where the inner radius lies inside the outer one) and Cross
EdgeInit ==
    /\ edge_px \in {q \in [sprite_type : SoftShapes,
                          edge : (0 - MaxEdge) .. MaxEdge,
                          edge2 : (0 - MaxEdge) .. MaxEdge + 1,
                          softness : 0 .. MaxSoftness] :
                      /\ q.sprite_type = "Ring" => q.edge2 > q.edge
                      /\ q.sprite_type = "Cross" => q.edge2 <= MaxEdge
                      /\ q.sprite_type \notin {"Ring", "Cross"}
                             => q.edge2 = 0}
    /\ edge_out = NoIntensity

\* no shape is being drawn
EdgeIdle ==
    /\ edge_px = [sprite_type |-> "Circle", edge |-> 0, edge2 |-> 0,
                  softness |-> 0]
    /\ edge_out = NoIntensity

\* SpriteGenerator.generate reaches the edge falloff of the shape
generate_edge ==
    /\ edge_out = NoIntensity
    /\ edge_out' = EdgeIntensity(edge_px.sprite_type, edge_px.edge,
                                 edge_px.edge2, edge_px.softness)
    /\ UNCHANGED edge_px
    /\ UNCHANGED notEdge

EdgeDone ==
    /\ edge_out # NoIntensity
    /\ edge_out' = NoIntensity
    /\ UNCHANGED edge_px
    /\ UNCHANGED notEdge

EdgeNext ==
    \/ generate_edge
    \/ EdgeDone

\* the intensity the specification gives for one distance
SpecFalloff(edge, softness) ==
    IF softness > 0
    THEN Clip01(FSub(One, FDiv(FInt(edge), FInt(softness))))
    ELSE HardStep(edge)

\* C23: for every shape with a softness parameter, softness 0 selects the
\* hard step and no division by softness is performed; the soft falloff is
\* used only for softness > 0
C23_SoftnessZeroIsHardStep ==
    (edge_out # NoIntensity /\ edge_px.softness = 0) =>
        /\ edge_out.divisions = 0
        /\ edge_out.intensity # NaN
        /\ edge_px.sprite_type \notin {"Ring", "Cross"}
               => edge_out.intensity = SpecFalloff(edge_px.edge, 0)

-----------------------------------------------------------------------------
(* Noise generator: the sample points of Domain Warp                       *)

\* Pixel coordinates, offsets, sensitivity and the warp are whole numbers
\* here, so every sum is exact; a sample point is kept as its three
\* numerators over the common denominator scale.

\* largest pixel coordinate
MaxWarpPixel == 1

\* largest x_offset, y_offset and z_offset, to either side
MaxOffset == 1

\* values of params['sensitivity'], params['scale'] and params['warp']
Sensitivities == {1, 2}

WarpScales == {50}

WarpStrengths == {0, 50}

\* what simplex_warp.noise3 returns at a sample point
WarpSamples == {0 - 1, 1}

NoWarp == [scale |-> 0]

\* one pass of the loop body of _domain_warp for the pixel (x, y); n1 and n2
\* are the values of the two simplex_warp.noise3 calls
WarpPixel(x, y, p, n1, n2) ==
    LET x_off == p.x_offset * p.sensitivity
        y_off == p.y_offset * p.sensitivity
        z_off == p.z_offset * p.sensitivity
        wx == n1 * p.warp
        wy == n2 * p.warp
    IN  [scale |-> p.scale,
         warp_point |-> <<x + x_off, y + y_off, z_off>>,
         wx |-> wx, wy |-> wy,
         base_point |-> <<x + wx, y + wy, z_off>>]

WarpInit ==
    /\ warp_px \in [x : 0 .. MaxWarpPixel, y : 0 .. MaxWarpPixel,
                    n1 : WarpSamples, n2 : WarpSamples,
                    p : [x_offset : (0 - MaxOffset) .. MaxOffset,
                         y_offset : (0 - MaxOffset) .. MaxOffset,
                         z_offset : 0 .. MaxOffset,
                         sensitivity : Sensitivities,
                         scale : WarpScales, warp : WarpStrengths]]
    /\ warp_out = NoWarp

\* Domain Warp is not being generated
WarpIdle ==
    /\ warp_px = [x |-> 0, y |-> 0, n1 |-> 1, n2 |-> 1,
                  p |-> [x_offset |-> 0, y_offset |-> 0, z_offset |-> 0,
                         sensitivity |-> 1, scale |-> 50, warp |-> 50]]
    /\ warp_out = NoWarp

\* _domain_warp samples the warp and the base primitive for the pixel
domain_warp_pixel ==
    /\ warp_out = NoWarp
    /\ warp_out' = WarpPixel(warp_px.x, warp_px.y, warp_px.p,
                             warp_px.n1, warp_px.n2)
    /\ UNCHANGED warp_px
    /\ UNCHANGED notWarp

WarpDone ==
    /\ warp_out # NoWarp
    /\ warp_out' = NoWarp
    /\ UNCHANGED warp_px
    /\ UNCHANGED notWarp

WarpNext ==
    \/ domain_warp_pixel
    \/ WarpDone

\* C24: Domain Warp samples the base primitive at the displaced sampling
\* coordinate ((x + x_offset * sensitivity + wx) / scale,
\* (y + y_offset * sensitivity + wy) / scale, z_offset * sensitivity / scale)
C24_BaseSampledAtDisplacedPoint ==
    warp_out # NoWarp =>
        LET p == warp_px.p
        IN  warp_out.base_point
                = <<warp_px.x + p.x_offset * p.sensitivity + warp_out.wx,
                    warp_px.y + p.y_offset * p.sensitivity + warp_out.wy,
                    p.z_offset * p.sensitivity>>

-----------------------------------------------------------------------------
(* Sprite GUI: the preview thread                                          *)

\* number of parameter changes the user makes
MaxChanges == 3

NoThread == [pc |-> "none", rev |-> 0]

\* generation_thread.isRunning(): from start() until run has returned
SpriteThread_isRunning == generation_thread.pc \in {"running", "emitted"}

\* update_preview of the sprite GUI, for the parameters of revision rev
SpriteGeneratorGUI_update_preview(rev) ==
    IF SpriteThread_isRunning
    THEN /\ pending_update' = TRUE
         /\ UNCHANGED generation_thread
    ELSE /\ generation_thread' = [pc |-> "running", rev |-> rev]
         /\ UNCHANGED pending_update

\* __init__ has called update_preview: the first thread runs
SpritePreviewInit ==
    /\ params_rev = 0
    /\ generation_thread = [pc |-> "running", rev |-> 0]
    /\ pending_update = FALSE
    /\ ready_signals = <<>>
    /\ current_sprite = 0 - 1
    /\ retry_timer = 0

\* the sprite GUI is not open
SpritePreviewIdle ==
    /\ params_rev = 0
    /\ generation_thread = NoThread
    /\ pending_update = FALSE
    /\ ready_signals = <<>>
    /\ current_sprite = 0 - 1
    /\ retry_timer = 0

\* on_param_changed of the sprite GUI: stores the value, calls update_preview
sprite_on_param_changed ==
    /\ generation_thread # NoThread
    /\ params_rev < MaxChanges
    /\ params_rev' = params_rev + 1
    /\ SpriteGeneratorGUI_update_preview(params_rev + 1)
    /\ UNCHANGED <<ready_signals, current_sprite, retry_timer>>
    /\ UNCHANGED notSpritePreview

\* SpriteGeneratorThread.run up to and including self.finished.emit(sprite):
\* the signal is queued for the main thread
SpriteGeneratorThread_run ==
    /\ generation_thread.pc = "running"
    /\ generation_thread' = [generation_thread EXCEPT !.pc = "emitted"]
    /\ ready_signals' = Append(ready_signals, generation_thread.rev)
    /\ UNCHANGED <<params_rev, pending_update, current_sprite, retry_timer>>
    /\ UNCHANGED notSpritePreview

\* run returns and the thread stops running
SpriteGeneratorThread_return ==
    /\ generation_thread.pc = "emitted"
    /\ generation_thread' = [generation_thread EXCEPT !.pc = "finished"]
    /\ UNCHANGED <<params_rev, pending_update, ready_signals, current_sprite,
                   retry_timer>>
    /\ UNCHANGED notSpritePreview

\* the main thread delivers a queued finished signal
on_preview_ready ==
    /\ ready_signals # <<>>
    /\ current_sprite' = Head(ready_signals)
    /\ ready_signals' = Tail(ready_signals)
    /\ IF pending_update
       THEN /\ pending_update' = FALSE
            /\ retry_timer' = retry_timer + 1
       ELSE UNCHANGED <<pending_update, retry_timer>>
    /\ UNCHANGED <<params_rev, generation_thread>>
    /\ UNCHANGED notSpritePreview

\* one of the pending QTimer.singleShot(50, self.update_preview) fires
retry_timeout ==
    /\ retry_timer > 0
    /\ retry_timer' = retry_timer - 1
    /\ SpriteGeneratorGUI_update_preview(params_rev)
    /\ UNCHANGED <<params_rev, ready_signals, current_sprite>>
    /\ UNCHANGED notSpritePreview

SpritePreviewNext ==
    \/ sprite_on_param_changed
    \/ SpriteGeneratorThread_run
    \/ SpriteGeneratorThread_return
    \/ on_preview_ready
    \/ retry_timeout

\* the thread, the event loop and the timer all make progress
SpritePreviewFair ==
    /\ WF_vars(SpriteGeneratorThread_run)
    /\ WF_vars(SpriteGeneratorThread_return)
    /\ WF_vars(on_preview_ready)
    /\ WF_vars(retry_timeout)

\* C25: after the last parameter change the preview of the latest
\* parameters is eventually displayed and stays
C25_LatestPreviewShown == <>[](current_sprite = params_rev)

-----------------------------------------------------------------------------
(* Noise GUI: playback of the animation frames                             *)

\* largest value of frame_spin when an animation is generated
MaxPlayFrames == 3

\* the handlers that rebuild atlas_frames frame by frame
FrameBuilders == {"preview_animation", "export_atlas", "export_sequence"}

NoBuild == [op |-> "none", i |-> 0, num_frames |-> 0]

NoAccess == [index |-> 0 - 1, len |-> 0]

\* atlas_frames is modelled by its length

\* the window has opened
PlaybackInit ==
    /\ atlas_frames = 0
    /\ current_frame = 0
    /\ animation_timer = FALSE
    /\ build = NoBuild
    /\ frame_access = NoAccess

\* the noise GUI shows no animation
PlaybackIdle ==
    /\ atlas_frames = 0
    /\ current_frame = 0
    /\ animation_timer = FALSE
    /\ build = NoBuild
    /\ frame_access = NoAccess

\* preview_animation, export_atlas, export_sequence up to the first
\* QApplication.processEvents(): atlas_frames is emptied, the timer of an
\* earlier animation keeps running and current_frame keeps its value
build_begin(op, num_frames) ==
    /\ build = NoBuild
    /\ atlas_frames' = 0
    /\ build' = [op |-> op, i |-> 0, num_frames |-> num_frames]
    /\ UNCHANGED <<current_frame, animation_timer, frame_access>>
    /\ UNCHANGED notPlayback

\* one pass of the loop after processEvents() has returned: the frame is
\* generated and appended; the next pass stops at processEvents() again
build_frame ==
    /\ build # NoBuild
    /\ build.i < build.num_frames
    /\ atlas_frames' = atlas_frames + 1
    /\ build' = [build EXCEPT !.i = @ + 1]
    /\ UNCHANGED <<current_frame, animation_timer, frame_access>>
    /\ UNCHANGED notPlayback

\* generating the frame raises: the handler is left, atlas_frames stays as
\* far as it was built
build_raise ==
    /\ build # NoBuild
    /\ build.i < build.num_frames
    /\ build' = NoBuild
    /\ UNCHANGED <<atlas_frames, current_frame, animation_timer, frame_access>>
    /\ UNCHANGED notPlayback

\* after the loop: current_frame = 0 and start_animation, which restarts the
\* timer and shows the first frame through update_animation_frame
build_finish ==
    /\ build # NoBuild
    /\ build.i = build.num_frames
    /\ build' = NoBuild
    /\ animation_timer' = TRUE
    /\ frame_access' = [index |-> 0, len |-> atlas_frames]
    /\ current_frame' = 1 % atlas_frames
    /\ UNCHANGED atlas_frames
    /\ UNCHANGED notPlayback

\* the playback timer fires: in the event loop between handlers, or inside
\* the processEvents() of a handler that is rebuilding atlas_frames.  An
\* index out of range raises IndexError and current_frame stays
update_animation_frame ==
    /\ animation_timer
    /\ build = NoBuild \/ build.i < build.num_frames
    /\ atlas_frames # 0
    /\ frame_access' = [index |-> current_frame, len |-> atlas_frames]
    /\ current_frame' = IF current_frame < atlas_frames
                        THEN (current_frame + 1) % atlas_frames
                        ELSE current_frame
    /\ UNCHANGED <<atlas_frames, animation_timer, build>>
    /\ UNCHANGED notPlayback

PlaybackNext ==
    \/ \E op \in FrameBuilders, num_frames \in 1 .. MaxPlayFrames :
           build_begin(op, num_frames)
    \/ build_frame
    \/ build_raise
    \/ build_finish
    \/ update_animation_frame

\* C26: whenever update_animation_frame indexes atlas_frames,
\* 0 <= current_frame < len(atlas_frames)
C26_FrameIndexInRange ==
    frame_access # NoAccess =>
        /\ 0 <= frame_access.index
        /\ frame_access.index < frame_access.len

-----------------------------------------------------------------------------
(* Noise GUI: the parameter bags during the frame loops                    *)

\* largest value of frame_spin and of anim_rate_spin (min 1) in these runs
MaxBagFrames == 2

MaxAnimRate == 2

\* the loops stop when z_offset has drifted this far
MaxZOffset == 6

\* the handlers that swap self.params_a and self.params_b for each frame
FrameLoops == {"preview_atlas", "preview_animation", "export_atlas",
               "export_sequence"}

NoLoop == [op |-> "none"]

\* a dict: which object it is, and its z_offset
Bag(obj, z_offset) == [obj |-> obj, z_offset |-> z_offset]

\* params.copy() with z_offset advanced for frame i
FrameCopy(params, i, anim_rate) ==
    Bag("copy", params.z_offset + i * anim_rate)

\* the window has opened; layer B is in use or not
BagsInit ==
    /\ params_a = Bag("params_a", 0)
    /\ params_b = Bag("params_b", 0)
    /\ noise_type_b \in {"None", "Perlin"}
    /\ loop_call = NoLoop

\* no frame loop has run
BagsIdle ==
    /\ params_a = Bag("params_a", 0)
    /\ params_b = Bag("params_b", 0)
    /\ noise_type_b = "None"
    /\ loop_call = NoLoop

\* one of the four handlers from call to return.  Each pass copies the
\* bags, installs the copies, generates the frame and puts the old bags
\* back.  failed_frame is the pass whose generate_composite_noise raises,
\* num_frames if none does: the statements after the call are then skipped
frame_loop(op, num_frames, anim_rate, failed_frame) ==
    /\ params_a.z_offset + num_frames * anim_rate <= MaxZOffset
    /\ IF failed_frame < num_frames
       THEN /\ params_a' = FrameCopy(params_a, failed_frame, anim_rate)
            /\ params_b' = IF noise_type_b # "None"
                           THEN FrameCopy(params_b, failed_frame, anim_rate)
                           ELSE Bag("copy", params_b.z_offset)
       ELSE UNCHANGED <<params_a, params_b>>
    /\ loop_call' = [op |-> op, raised |-> failed_frame < num_frames,
                     before_a |-> params_a, before_b |-> params_b]
    /\ UNCHANGED noise_type_b
    /\ UNCHANGED notBags

BagsNext ==
    \E op \in FrameLoops, num_frames \in 1 .. MaxBagFrames,
       anim_rate \in 1 .. MaxAnimRate :
        \E failed_frame \in 0 .. num_frames :
            frame_loop(op, num_frames, anim_rate, failed_frame)

\* C27: when preview_atlas, preview_animation, export_atlas or
\* export_sequence has returned, self.params_a and self.params_b are the
\* objects they were before the call, with the same values, whether or not
\* a frame's generation raised
C27_BagsRestored ==
    loop_call # NoLoop =>
        /\ params_a = loop_call.before_a
        /\ params_b = loop_call.before_b

-----------------------------------------------------------------------------
(* Specifications                                                          *)

\* the sprite GUI's animator runs, the rest is at rest
InitAnim ==
    /\ BagsIdle
    /\ PlaybackIdle
    /\ SpritePreviewIdle
    /\ WarpIdle
    /\ EdgeIdle
    /\ ColorIdle
    /\ TilerIdle /\ NameIdle
    /\ AnimInit /\ BlendIdle /\ NoiseIdle
    /\ PreviewIdle /\ ExportIdle /\ RaceIdle
    /\ AtlasIdle

SpecAnim == InitAnim /\ [][AnimNext]_vars

\* the noise GUI's blender runs
InitBlend ==
    /\ BagsIdle
    /\ PlaybackIdle
    /\ SpritePreviewIdle
    /\ WarpIdle
    /\ EdgeIdle
    /\ ColorIdle
    /\ TilerIdle /\ NameIdle
    /\ BlendInit /\ AnimIdle /\ NoiseIdle
    /\ PreviewIdle /\ ExportIdle /\ RaceIdle
    /\ AtlasIdle

SpecBlend == InitBlend /\ [][BlendNext]_vars

\* the noise composer runs
InitNoise ==
    /\ BagsIdle
    /\ PlaybackIdle
    /\ SpritePreviewIdle
    /\ WarpIdle
    /\ EdgeIdle
    /\ ColorIdle
    /\ TilerIdle /\ NameIdle
    /\ NoiseInit /\ AnimIdle /\ BlendIdle
    /\ PreviewIdle /\ ExportIdle /\ RaceIdle
    /\ AtlasIdle

SpecNoise == InitNoise /\ [][NoiseNext]_vars

\* the noise GUI's preview worker runs
InitPreview ==
    /\ BagsIdle
    /\ PlaybackIdle
    /\ SpritePreviewIdle
    /\ WarpIdle
    /\ EdgeIdle
    /\ ColorIdle
    /\ TilerIdle /\ NameIdle
    /\ PreviewInit /\ AnimIdle /\ BlendIdle
    /\ NoiseIdle /\ ExportIdle /\ RaceIdle
    /\ AtlasIdle

SpecPreview == InitPreview /\ [][PreviewNext]_vars

\* the batch exports run
InitExport ==
    /\ BagsIdle
    /\ PlaybackIdle
    /\ SpritePreviewIdle
    /\ WarpIdle
    /\ EdgeIdle
    /\ ColorIdle
    /\ TilerIdle /\ NameIdle
    /\ ExportInit /\ AnimIdle /\ BlendIdle
    /\ NoiseIdle /\ PreviewIdle /\ RaceIdle
    /\ AtlasIdle

SpecExport == InitExport /\ [][ExportNext]_vars

\* the sprite generator runs on the preview thread and the main thread
InitRace ==
    /\ BagsIdle
    /\ PlaybackIdle
    /\ SpritePreviewIdle
    /\ WarpIdle
    /\ EdgeIdle
    /\ ColorIdle
    /\ TilerIdle /\ NameIdle
    /\ RaceInit /\ AnimIdle /\ BlendIdle
    /\ NoiseIdle /\ PreviewIdle /\ ExportIdle
    /\ AtlasIdle

SpecSpriteRace == InitRace /\ [][RaceNext]_vars

\* the atlas controls and the atlas packing run
InitAtlas ==
    /\ BagsIdle
    /\ PlaybackIdle
    /\ SpritePreviewIdle
    /\ WarpIdle
    /\ EdgeIdle
    /\ ColorIdle
    /\ TilerIdle /\ NameIdle
    /\ AtlasInit /\ AnimIdle /\ BlendIdle
    /\ NoiseIdle /\ PreviewIdle /\ ExportIdle /\ RaceIdle

SpecAtlas == InitAtlas /\ [][AtlasNext]_vars

\* the seamless tiler runs
InitTiler ==
    /\ BagsIdle
    /\ PlaybackIdle
    /\ SpritePreviewIdle
    /\ WarpIdle
    /\ EdgeIdle
    /\ ColorIdle
    /\ NameIdle
    /\ TilerInit /\ AnimIdle /\ BlendIdle
    /\ NoiseIdle /\ PreviewIdle /\ ExportIdle /\ RaceIdle
    /\ AtlasIdle

SpecTiler == InitTiler /\ [][TilerNext]_vars

\* the single-image exports run
InitName ==
    /\ BagsIdle
    /\ PlaybackIdle
    /\ SpritePreviewIdle
    /\ WarpIdle
    /\ EdgeIdle
    /\ ColorIdle
    /\ NameInit /\ AnimIdle /\ BlendIdle
    /\ NoiseIdle /\ PreviewIdle /\ ExportIdle /\ RaceIdle
    /\ AtlasIdle /\ TilerIdle

SpecName == InitName /\ [][NameNext]_vars

\* the sprite generator colours a pixel
InitColor ==
    /\ BagsIdle
    /\ PlaybackIdle
    /\ SpritePreviewIdle
    /\ WarpIdle
    /\ EdgeIdle
    /\ ColorInit
    /\ AnimIdle
    /\ BlendIdle
    /\ NoiseIdle
    /\ PreviewIdle
    /\ ExportIdle
    /\ RaceIdle
    /\ AtlasIdle
    /\ TilerIdle
    /\ NameIdle

SpecColor == InitColor /\ [][ColorNext]_vars

\* the sprite generator draws the edge of a shape
InitEdge ==
    /\ BagsIdle
    /\ PlaybackIdle
    /\ SpritePreviewIdle
    /\ WarpIdle
    /\ EdgeInit
    /\ AnimIdle
    /\ BlendIdle
    /\ NoiseIdle
    /\ PreviewIdle
    /\ ExportIdle
    /\ RaceIdle
    /\ AtlasIdle
    /\ TilerIdle
    /\ NameIdle
    /\ ColorIdle

SpecEdge == InitEdge /\ [][EdgeNext]_vars

\* the noise generator samples Domain Warp
InitWarp ==
    /\ BagsIdle
    /\ PlaybackIdle
    /\ SpritePreviewIdle
    /\ WarpInit
    /\ AnimIdle
    /\ BlendIdle
    /\ NoiseIdle
    /\ PreviewIdle
    /\ ExportIdle
    /\ RaceIdle
    /\ AtlasIdle
    /\ TilerIdle
    /\ NameIdle
    /\ ColorIdle
    /\ EdgeIdle

SpecWarp == InitWarp /\ [][WarpNext]_vars

\* the sprite GUI's preview thread runs
InitSpritePreview ==
    /\ BagsIdle
    /\ PlaybackIdle
    /\ SpritePreviewInit
    /\ AnimIdle
    /\ BlendIdle
    /\ NoiseIdle
    /\ PreviewIdle
    /\ ExportIdle
    /\ RaceIdle
    /\ AtlasIdle
    /\ TilerIdle
    /\ NameIdle
    /\ ColorIdle
    /\ EdgeIdle
    /\ WarpIdle

SpecSpritePreview ==
    InitSpritePreview /\ [][SpritePreviewNext]_vars /\ SpritePreviewFair

\* the noise GUI plays and rebuilds an animation
InitPlayback ==
    /\ BagsIdle
    /\ PlaybackInit
    /\ AnimIdle
    /\ BlendIdle
    /\ NoiseIdle
    /\ PreviewIdle
    /\ ExportIdle
    /\ RaceIdle
    /\ AtlasIdle
    /\ TilerIdle
    /\ NameIdle
    /\ ColorIdle
    /\ EdgeIdle
    /\ WarpIdle
    /\ SpritePreviewIdle

SpecPlayback == InitPlayback /\ [][PlaybackNext]_vars

\* the noise GUI runs its frame loops
InitBags ==
    /\ BagsInit
    /\ AnimIdle
    /\ BlendIdle
    /\ NoiseIdle
    /\ PreviewIdle
    /\ ExportIdle
    /\ RaceIdle
    /\ AtlasIdle
    /\ TilerIdle
    /\ NameIdle
    /\ ColorIdle
    /\ EdgeIdle
    /\ WarpIdle
    /\ SpritePreviewIdle
    /\ PlaybackIdle

SpecBags == InitBags /\ [][BagsNext]_vars

====
